---- MODULE Spec2Model ----
(***************************************************************************)
(* Model of the RT-Thread UDS (ISO 14229) server port:                     *)
(*   - the event dispatch table (rt_list chains of service nodes) with     *)
(*     rtt_uds_service_register / _unregister / _unregister_all and        *)
(*     server_event_dispatcher           (server_demo/iso14229_rtt.c)      *)
(*   - the security, IO-control and file-transfer services mounted on it   *)
(*     (server_demo/service/*.c)                                           *)
(* Result codes of handlers are kept symbolic (their C names).             *)
(***************************************************************************)
EXTENDS Integers, Sequences, FiniteSets, TLC

(***************************************************************************)
(* Bounds of the model                                                     *)
(***************************************************************************)
\* number of application service nodes that may be registered
NumUserNodes == 3
\* size of the console capture buffer (the build's UDS_CONSOLE_BUF_SIZE)
UDS_CONSOLE_BUF_SIZE == 20
\* number of IO nodes the application defines
NumIoNodes == 2
\* number of values rt_tick_get() is seen to return
NumTicks == 3
\* number of bytes an uploaded file may reach
MaxFileLen == 2
\* value up to which g_heartbeat_fail_count is counted
MaxFailCount == 4
\* number of TransferData blocks of an uploaded file
NumBlocks == 2
\* number of calls of the disconnect callback followed in one shell session
MaxCbCalls == 2
\* number of frames the receive queue of the server holds
MaxQueue == 2
\* number of application nodes the msh thread registers beside the running server
NumThreadNodes == 2

(***************************************************************************)
(* Program constants                                                       *)
(***************************************************************************)
RTT_UDS_PRIO_HIGHEST == 0
RTT_UDS_PRIO_HIGH == 64
RTT_UDS_PRIO_NORMAL == 128

\* UDSErr_t values a handler may return, and RTT_UDS_CONTINUE
RTT_UDS_CONTINUE == "RTT_UDS_CONTINUE"
UDS_PositiveResponse == "UDS_PositiveResponse"
UDS_NRC_GeneralReject == "UDS_NRC_GeneralReject"
UDS_NRC_ServiceNotSupported == "UDS_NRC_ServiceNotSupported"
UDS_NRC_SubFunctionNotSupported == "UDS_NRC_SubFunctionNotSupported"
UDS_NRC_IncorrectMessageLengthOrInvalidFormat == "UDS_NRC_IncorrectMessageLengthOrInvalidFormat"
UDS_NRC_ConditionsNotCorrect == "UDS_NRC_ConditionsNotCorrect"
UDS_NRC_RequestSequenceError == "UDS_NRC_RequestSequenceError"
UDS_NRC_RequestOutOfRange == "UDS_NRC_RequestOutOfRange"
UDS_NRC_InvalidKey == "UDS_NRC_InvalidKey"
UDS_NRC_GeneralProgrammingFailure == "UDS_NRC_GeneralProgrammingFailure"
UDS_NRC_RequestCorrectlyReceived_ResponsePending == "UDS_NRC_RequestCorrectlyReceived_ResponsePending"
UDS_NRC_SecurityAccessDenied == "UDS_NRC_SecurityAccessDenied"
UDS_NRC_SubFunctionNotSupportedInActiveSession == "UDS_NRC_SubFunctionNotSupportedInActiveSession"
UDS_NRC_ServiceNotSupportedInActiveSession == "UDS_NRC_ServiceNotSupportedInActiveSession"

\* results an application handler is let to return in the model
UserResults ==
  { RTT_UDS_CONTINUE, UDS_PositiveResponse,
    UDS_NRC_RequestCorrectlyReceived_ResponsePending,
    UDS_NRC_RequestOutOfRange, UDS_NRC_SubFunctionNotSupported,
    UDS_NRC_ConditionsNotCorrect }

(***************************************************************************)
(* Events and list cells.  event_table[evt] is an rt_list_t head; the head *)
(* of an event's chain is named by the event itself.                       *)
(***************************************************************************)
UDS_EVT_WriteDataByIdent == "UDS_EVT_WriteDataByIdent"
UDS_EVT_ReadDataByIdent == "UDS_EVT_ReadDataByIdent"
UDS_EVT_SessionTimeout == "UDS_EVT_SessionTimeout"
\* an event id >= UDS_RTT_EVENT_TABLE_SIZE
EVT_OUT_OF_TABLE == "EVT_OUT_OF_TABLE"

UDS_EVT_SecAccessRequestSeed == "UDS_EVT_SecAccessRequestSeed"
UDS_EVT_SecAccessValidateKey == "UDS_EVT_SecAccessValidateKey"
UDS_EVT_IOControl == "UDS_EVT_IOControl"
UDS_EVT_RequestFileTransfer == "UDS_EVT_RequestFileTransfer"
UDS_EVT_TransferData == "UDS_EVT_TransferData"
UDS_EVT_RequestTransferExit == "UDS_EVT_RequestTransferExit"
UDS_EVT_DiagSessCtrl == "UDS_EVT_DiagSessCtrl"
UDS_EVT_RoutineCtrl == "UDS_EVT_RoutineCtrl"

UserEvents == { UDS_EVT_WriteDataByIdent, UDS_EVT_ReadDataByIdent }
Events ==
  UserEvents \cup
  { UDS_EVT_SessionTimeout, UDS_EVT_SecAccessRequestSeed, UDS_EVT_SecAccessValidateKey,
    UDS_EVT_IOControl, UDS_EVT_RequestFileTransfer, UDS_EVT_TransferData,
    UDS_EVT_RequestTransferExit, UDS_EVT_DiagSessCtrl, UDS_EVT_RoutineCtrl }

UserNodePool == << "user_node_1", "user_node_2", "user_node_3", "user_node_4", "user_node_5" >>
UserNodes == { UserNodePool[i] : i \in 1..NumUserNodes }

\* the security service instances (uds_security_service_t) and their three nodes
SecInsts == { "security_service", "security_service_3" }
SecNodeOf(s, field) == s \o "." \o field
SecNodes(s) ==
  { SecNodeOf(s, "req_seed_node"), SecNodeOf(s, "val_key_node"), SecNodeOf(s, "timeout_node") }

\* the built-in session-timeout logger node
LogTimeoutNode == "log_timeout_node"

\* the IO service (uds_io_service_t): its two service nodes, the head of its
\* node list and the IO nodes (uds_io_node_t) of the application
IoService == "io_service"
IoCtrlNode == "io_service.ctrl_service_node"
IoTimeoutNode == "io_service.timeout_service_node"
IoNodeList == "io_service.node_list"
IoNodePool == << "io_node_1", "io_node_2", "io_node_3" >>
IoNodes == { IoNodePool[i] : i \in 1..NumIoNodes }
\* the DID of every IO node; the first is the example's UDS_EXAMPLE_LED_CTRL_DID 0x0100
IoDidPool == << 256, 257, 258 >>
IoDid(n) == IoDidPool[CHOOSE i \in 1..Len(IoNodePool) : IoNodePool[i] = n]

\* the file service (uds_file_service_t) and its four nodes
FileService == "file_service"
FileReqNode == "file_service.req_node"
FileDataNode == "file_service.data_node"
FileExitNode == "file_service.exit_node"
FileTimeoutNode == "file_service.timeout_node"
FileNodes == { FileReqNode, FileDataNode, FileExitNode, FileTimeoutNode }

\* the session-control node (RTT_UDS_SERVICE_DEFINE_OPS) and the console
\* service (uds_console_service_t) with its node
SessionControlNode == "session_control_node"
ConsoleService == "console_service"
ConsoleNode == "console_service.service_node"

ServiceNodes ==
  UserNodes \cup { LogTimeoutNode } \cup UNION { SecNodes(s) : s \in SecInsts }
    \cup { IoCtrlNode, IoTimeoutNode } \cup FileNodes
    \cup { SessionControlNode, ConsoleNode }
Cells == Events \cup ServiceNodes \cup { IoNodeList } \cup IoNodes

VARIABLES
  list_next,      \* rt_list_t.next of every cell
  list_prev,      \* rt_list_t.prev of every cell
  node,           \* uds_service_node_t fields: event, priority, handler, context
  sec,            \* uds_security_service_t of every instance
  securityLevel,  \* UDSServer_t.securityLevel
  sessionType,    \* UDSServer_t.sessionType
  console,        \* uds_console_service_t: buffer, pos, overflow; the build's options
  is_overridden,  \* uds_io_node_t.is_overridden of every IO node
  file,           \* uds_file_service_t: fd, mode, total_size, current_pos, current_crc, path
  os,             \* the file system: the descriptor table and the files
  reg_order,      \* history: the registered nodes, in the order they were registered
  disp,           \* history: the dispatch that ran last (chain, handlers invoked, results, return)
  cli,            \* the client: its core, the globals of uds_context.c, the shell's position
  thr             \* the consumer thread of the server: its queue, the links, its position

vars ==
  << list_next, list_prev, node, sec, securityLevel, sessionType, console,
     is_overridden, file, os, reg_order, disp, cli, thr >>
tableVars == << list_next, list_prev, node, reg_order >>
conVars == << sessionType, console >>
svcVars == << sec, securityLevel, conVars, is_overridden, file, os >>
cliVars == << cli >>
thrVars == << thr >>

\* the state the service handlers work on; resp is the response a handler copied
\* out, io_calls the calls made to the IO nodes' callbacks
SrvState ==
  [sec |-> sec, securityLevel |-> securityLevel, sessionType |-> sessionType,
   console |-> console, is_overridden |-> is_overridden,
   file |-> file, os |-> os, io_calls |-> << >>, resp |-> << >>]

(***************************************************************************)
(* uint32_t values are pairs << high 16 bits, low 16 bits >>               *)
(***************************************************************************)
RECURSIVE XorBits(_, _, _)
XorBits(a, b, n) ==
  IF n = 0 THEN 0
  ELSE (((a % 2) + (b % 2)) % 2) + 2 * XorBits(a \div 2, b \div 2, n - 1)

U32Xor(x, y) == << XorBits(x[1], y[1], 16), XorBits(x[2], y[2], 16) >>
\* ~x
U32Not(x) == << 65535 - x[1], 65535 - x[2] >>
\* x >> 1
U32Shr1(x) == << x[1] \div 2, (x[2] \div 2) + (x[1] % 2) * 32768 >>
U32Zero == << 0, 0 >>
\* the four bytes of x, most significant first
U32Bytes(x) == << x[1] \div 256, x[1] % 256, x[2] \div 256, x[2] % 256 >>
\* b[0] << 24 | b[1] << 16 | b[2] << 8 | b[3]
U32FromBytes(b) == << b[1] * 256 + b[2], b[3] * 256 + b[4] >>

(***************************************************************************)
(* rt_list primitives, on L = [next |-> ..., prev |-> ..., node |-> ...]:   *)
(* the links of every cell, and the fields of the service nodes            *)
(***************************************************************************)
Lists == [next |-> list_next, prev |-> list_prev, node |-> node]

\* l->next = l->prev = l
rt_list_init(L, l) ==
  [L EXCEPT !.next = [L.next EXCEPT ![l] = l], !.prev = [L.prev EXCEPT ![l] = l]]

\* l->next == l
rt_list_isempty(L, l) == L.next[l] = l

\* l->prev->next = n; n->prev = l->prev; l->prev = n; n->next = l
rt_list_insert_before(L, l, n) ==
  LET n1 == [L.next EXCEPT ![L.prev[l]] = n]
      p1 == [L.prev EXCEPT ![n] = L.prev[l]]
      p2 == [p1 EXCEPT ![l] = n]
      n2 == [n1 EXCEPT ![n] = l]
  IN  [L EXCEPT !.next = n2, !.prev = p2]

\* n->next->prev = n->prev; n->prev->next = n->next; n->next = n->prev = n
rt_list_remove(L, n) ==
  LET p1 == [L.prev EXCEPT ![L.next[n]] = L.prev[n]]
      n1 == [L.next EXCEPT ![L.prev[n]] = L.next[n]]
  IN  [L EXCEPT !.next = [n1 EXCEPT ![n] = n], !.prev = [p1 EXCEPT ![n] = n]]

\* rt_list_for_each_entry(node, head, list): the entries met, in order
RECURSIVE ListWalk(_, _, _)
ListWalk(L, head, pos) ==
  IF pos = head THEN << >> ELSE << pos >> \o ListWalk(L, head, L.next[pos])

ChainOf(L, head) == ListWalk(L, head, L.next[head])

(***************************************************************************)
(* rtt_uds_service_register                                                *)
(***************************************************************************)
EvtInTable(evt) == evt \in Events

\* (mutation) no search by priority: the node goes to the end of the chain
RegisterInsertPos_Append(L, head, curr, n) == head

\* (mutation) <= for <: the node goes before the nodes of its own priority
RECURSIVE RegisterInsertPos_BeforeEqual(_, _, _, _)
RegisterInsertPos_BeforeEqual(L, head, curr, n) ==
  IF curr = head THEN head
  ELSE IF L.node[n].priority <= L.node[curr].priority THEN curr
  ELSE RegisterInsertPos_BeforeEqual(L, head, L.next[curr], n)

\* the loop that looks for the first node with a larger priority number;
\* yields the cell to insert before (the head when there is none)
RECURSIVE RegisterInsertPos(_, _, _, _)
RegisterInsertPos(L, head, curr, n) ==
  IF curr = head THEN head
  ELSE IF L.node[n].priority < L.node[curr].priority THEN curr
  ELSE RegisterInsertPos(L, head, L.next[curr], n)

rtt_uds_service_register(L, n) ==
  IF ~EvtInTable(L.node[n].event) THEN [ret |-> "-RT_EINVAL", L |-> L]
  ELSE IF ~rt_list_isempty(L, n) THEN [ret |-> "-RT_EBUSY", L |-> L]
  ELSE LET head == L.node[n].event
           at == RegisterInsertPos(L, head, L.next[head], n)
       IN  [ret |-> "RT_EOK", L |-> rt_list_insert_before(L, at, n)]

(***************************************************************************)
(* rtt_uds_service_unregister, rtt_uds_service_unregister_all              *)
(***************************************************************************)
rtt_uds_service_unregister(L, n) ==
  IF ~rt_list_isempty(L, n) THEN rt_list_init(rt_list_remove(L, n), n) ELSE L

RECURSIVE UnregisterHead(_, _)
UnregisterHead(L, head) ==
  IF rt_list_isempty(L, head) THEN L
  ELSE UnregisterHead(rtt_uds_service_unregister(L, L.next[head]), head)

RECURSIVE UnregisterTable(_, _)
UnregisterTable(L, heads) ==
  IF heads = {} THEN L
  ELSE LET h == CHOOSE x \in heads : TRUE
       IN  UnregisterTable(UnregisterHead(L, h), heads \ {h})

rtt_uds_service_unregister_all(L) == UnregisterTable(L, Events)

(***************************************************************************)
(* Handlers.  An application handler's result depends on the request: it   *)
(* is an input of the dispatch (orc.user[n]).                              *)
(***************************************************************************)
\* args->copySeed / args->copyResponse / args->copy of the core library: the bytes
\* become the body of the positive response
CopyResponse(st, bytes) ==
  [result |-> UDS_PositiveResponse, st |-> [st EXCEPT !.resp = bytes]]

(***************************************************************************)
(* Service 0x27: security access                                           *)
(***************************************************************************)
\* 0x12345678
GENERATE_SEED_MASK == << 4660, 22136 >>

\* rt_tick_get() ^ 0x12345678
generate_seed(tick) == U32Xor(tick, GENERATE_SEED_MASK)

calculate_key(seed, mask) == U32Xor(seed, mask)

handle_request_seed(ctx, args, orc, st) ==
  IF ctx = "NULL" THEN [result |-> UDS_NRC_ConditionsNotCorrect, st |-> st]
  ELSE IF args.level # st.sec[ctx].supported_level
    THEN [result |-> UDS_NRC_SubFunctionNotSupported, st |-> st]
  ELSE IF st.securityLevel = args.level
    THEN CopyResponse(st, U32Bytes(U32Zero))
  ELSE LET seed == generate_seed(orc.tick)
       IN  CopyResponse([st EXCEPT !.sec[ctx].current_seed = seed], U32Bytes(seed))

handle_validate_key(ctx, args, orc, st) ==
  IF ctx = "NULL" THEN [result |-> UDS_NRC_ConditionsNotCorrect, st |-> st]
  ELSE IF args.level # st.sec[ctx].supported_level
    THEN [result |-> UDS_NRC_SubFunctionNotSupported, st |-> st]
  ELSE IF st.sec[ctx].current_seed = U32Zero
    THEN [result |-> UDS_NRC_RequestSequenceError, st |-> st]
  ELSE IF Len(args.key) # 4
    THEN [result |-> UDS_NRC_IncorrectMessageLengthOrInvalidFormat, st |-> st]
  ELSE LET received_key == U32FromBytes(args.key)
           expected_key == calculate_key(st.sec[ctx].current_seed, st.sec[ctx].secret_key)
           st1 == [st EXCEPT !.sec[ctx].current_seed = U32Zero]
       IN  IF received_key = expected_key
             THEN [result |-> UDS_PositiveResponse, st |-> st1]
             ELSE [result |-> UDS_NRC_InvalidKey, st |-> st1]

\* (mutation) the timeout handler leaves the seed
handle_sec_session_timeout_KeepSeed(ctx, args, orc, st) ==
  [result |-> RTT_UDS_CONTINUE, st |-> st]

handle_sec_session_timeout(ctx, args, orc, st) ==
  IF ctx # "NULL" /\ st.sec[ctx].current_seed # U32Zero
    THEN [result |-> RTT_UDS_CONTINUE,
          st |-> [st EXCEPT !.sec[ctx].current_seed = U32Zero]]
    ELSE [result |-> RTT_UDS_CONTINUE, st |-> st]

(***************************************************************************)
(* Service 0x2F: input/output control                                      *)
(***************************************************************************)
UDS_IO_ACT_RETURN_CONTROL == "UDS_IO_ACT_RETURN_CONTROL"
UDS_IO_ACT_RESET_TO_DEFAULT == "UDS_IO_ACT_RESET_TO_DEFAULT"
UDS_IO_ACT_FREEZE_CURRENT == "UDS_IO_ACT_FREEZE_CURRENT"
UDS_IO_ACT_SHORT_TERM_ADJ == "UDS_IO_ACT_SHORT_TERM_ADJ"

\* rt_list_for_each_entry(node, &svc->node_list, list) if (node->did == did) return node
RECURSIVE FindNodeFrom(_, _, _)
FindNodeFrom(L, pos, did) ==
  IF pos = IoNodeList THEN "NULL"
  ELSE IF IoDid(pos) = did THEN pos
  ELSE FindNodeFrom(L, L.next[pos], did)

find_node_by_did(L, svc, did) == FindNodeFrom(L, L.next[IoNodeList], did)

\* node->handler(node->did, action, ...): the application's callback; what it
\* returns is an input, the call is remembered
CallIoHandler(n, action, orc, st) ==
  [result |-> orc.io[n],
   st |-> [st EXCEPT !.io_calls = Append(st.io_calls, << n, action, orc.io[n] >>)]]

\* (mutation) the override state is updated before the callback's result is looked at
handle_io_control_dispatch_FlagFirst(L, ctx, args, orc, st) ==
  IF ctx = "NULL" THEN [result |-> UDS_NRC_ConditionsNotCorrect, st |-> st]
  ELSE LET n == find_node_by_did(L, ctx, args.dataId)
       IN  IF n = "NULL" THEN [result |-> UDS_NRC_RequestOutOfRange, st |-> st]
           ELSE LET action == args.ioCtrlParam
                    c == CallIoHandler(n, action, orc, st)
                    flags ==
                      IF action \in { UDS_IO_ACT_SHORT_TERM_ADJ, UDS_IO_ACT_FREEZE_CURRENT }
                        THEN [c.st.is_overridden EXCEPT ![n] = 1]
                      ELSE IF action \in { UDS_IO_ACT_RETURN_CONTROL,
                                           UDS_IO_ACT_RESET_TO_DEFAULT }
                        THEN [c.st.is_overridden EXCEPT ![n] = 0]
                      ELSE c.st.is_overridden
                    st1 == [c.st EXCEPT !.is_overridden = flags]
                IN  IF c.result # UDS_PositiveResponse
                      THEN [result |-> c.result, st |-> st1]
                      ELSE CopyResponse(st1, << >>)

handle_io_control_dispatch(L, ctx, args, orc, st) ==
  IF ctx = "NULL" THEN [result |-> UDS_NRC_ConditionsNotCorrect, st |-> st]
  ELSE LET n == find_node_by_did(L, ctx, args.dataId)
       IN  IF n = "NULL" THEN [result |-> UDS_NRC_RequestOutOfRange, st |-> st]
           ELSE LET action == args.ioCtrlParam
                    c == CallIoHandler(n, action, orc, st)
                IN  IF c.result # UDS_PositiveResponse THEN c
                    ELSE LET flags ==
                               IF action \in { UDS_IO_ACT_SHORT_TERM_ADJ,
                                               UDS_IO_ACT_FREEZE_CURRENT }
                                 THEN [c.st.is_overridden EXCEPT ![n] = 1]
                               ELSE IF action \in { UDS_IO_ACT_RETURN_CONTROL,
                                                    UDS_IO_ACT_RESET_TO_DEFAULT }
                                 THEN [c.st.is_overridden EXCEPT ![n] = 0]
                               ELSE c.st.is_overridden
                         IN  CopyResponse([c.st EXCEPT !.is_overridden = flags], << >>)

\* (mutation) the flag is cleared only when the callback succeeds
TimeoutRelease_OnlyOnSuccess(n, orc, st) ==
  LET c == CallIoHandler(n, UDS_IO_ACT_RETURN_CONTROL, orc, st)
  IN  IF c.result = UDS_PositiveResponse
        THEN [c.st EXCEPT !.is_overridden[n] = 0]
        ELSE c.st

\* the body of the timeout loop for an overridden node
TimeoutRelease(n, orc, st) ==
  LET c == CallIoHandler(n, UDS_IO_ACT_RETURN_CONTROL, orc, st)
  IN  [c.st EXCEPT !.is_overridden[n] = 0]

RECURSIVE IoTimeoutLoop(_, _, _, _)
IoTimeoutLoop(L, pos, orc, st) ==
  IF pos = IoNodeList THEN st
  ELSE IF st.is_overridden[pos] # 0
    THEN IoTimeoutLoop(L, L.next[pos], orc, TimeoutRelease(pos, orc, st))
  ELSE IoTimeoutLoop(L, L.next[pos], orc, st)

handle_io_session_timeout(L, ctx, args, orc, st) ==
  IF ctx = "NULL" THEN [result |-> RTT_UDS_CONTINUE, st |-> st]
  ELSE [result |-> RTT_UDS_CONTINUE,
        st |-> IoTimeoutLoop(L, L.next[IoNodeList], orc, st)]

(***************************************************************************)
(* The file system calls of the file service: descriptors are numbers of   *)
(* Fds, a file is a sequence of bytes                                      *)
(***************************************************************************)
Fds == 0..1
Paths == { "/a.bin", "/b.bin" }
NoFile == [exists |-> FALSE, data |-> << >>]
ClosedFd == [open |-> FALSE, path |-> "none", pos |-> 0, wr |-> FALSE]

FreeFds(o) == { fd \in Fds : ~o.fds[fd].open }

\* open(path, O_WRONLY | O_CREAT | O_TRUNC, 0)
os_open_write(o, path, ok) ==
  IF ~ok \/ path \notin Paths \/ FreeFds(o) = {} THEN [fd |-> -1, os |-> o]
  ELSE LET fd == CHOOSE f \in FreeFds(o) : \A g \in FreeFds(o) : f <= g
       IN  [fd |-> fd,
            os |-> [o EXCEPT !.fds[fd] = [open |-> TRUE, path |-> path, pos |-> 0, wr |-> TRUE],
                             !.fs[path] = [exists |-> TRUE, data |-> << >>]]]

\* open(path, O_RDONLY, 0)
os_open_read(o, path, ok) ==
  IF ~ok \/ path \notin Paths \/ FreeFds(o) = {} THEN [fd |-> -1, os |-> o]
  ELSE IF ~o.fs[path].exists THEN [fd |-> -1, os |-> o]
  ELSE LET fd == CHOOSE f \in FreeFds(o) : \A g \in FreeFds(o) : f <= g
       IN  [fd |-> fd,
            os |-> [o EXCEPT !.fds[fd] = [open |-> TRUE, path |-> path, pos |-> 0, wr |-> FALSE]]]

\* stat(path, &st): -1, or st_size
os_stat(o, path, ok) ==
  IF ok /\ path \in Paths /\ o.fs[path].exists THEN Len(o.fs[path].data) ELSE -1

os_close(o, fd) ==
  IF fd \in Fds /\ o.fds[fd].open THEN [o EXCEPT !.fds[fd] = ClosedFd] ELSE o

os_unlink(o, path) ==
  IF path \in Paths THEN [o EXCEPT !.fs[path] = NoFile] ELSE o

Min(a, b) == IF a < b THEN a ELSE b

\* write(fd, data, len); outcome says how much the file system takes
os_write(o, fd, data, outcome) ==
  IF fd \notin Fds \/ ~o.fds[fd].open \/ ~o.fds[fd].wr \/ outcome = "fail"
    THEN [rw_len |-> -1, os |-> o]
  ELSE LET n == IF outcome = "short" /\ Len(data) > 0 THEN Len(data) - 1 ELSE Len(data)
           f == o.fds[fd]
           old == o.fs[f.path].data
           new == SubSeq(old, 1, Min(f.pos, Len(old))) \o SubSeq(data, 1, n)
       IN  [rw_len |-> n,
            os |-> [o EXCEPT !.fds[fd].pos = f.pos + n,
                             !.fs[f.path] = [exists |-> o.fs[f.path].exists, data |-> new]]]

\* read(fd, buf, count)
os_read(o, fd, count, outcome) ==
  IF fd \notin Fds \/ ~o.fds[fd].open \/ o.fds[fd].wr \/ outcome = "fail"
    THEN [rw_len |-> -1, buf |-> << >>, os |-> o]
  ELSE LET f == o.fds[fd]
           all == o.fs[f.path].data
           n == Min(count, IF Len(all) > f.pos THEN Len(all) - f.pos ELSE 0)
       IN  [rw_len |-> n, buf |-> SubSeq(all, f.pos + 1, f.pos + n),
            os |-> [o EXCEPT !.fds[fd].pos = f.pos + n]]

(***************************************************************************)
(* Services 0x38, 0x36, 0x37: file transfer                                *)
(***************************************************************************)
UDS_FILE_MAX_PATH_LEN == 64
UDS_FILE_CHUNK_SIZE == 1024
FILE_MODE_IDLE == "FILE_MODE_IDLE"
FILE_MODE_WRITING == "FILE_MODE_WRITING"
FILE_MODE_READING == "FILE_MODE_READING"
UDS_MOOP_ADDFILE == "UDS_MOOP_ADDFILE"
UDS_MOOP_REPLFILE == "UDS_MOOP_REPLFILE"
UDS_MOOP_RDFILE == "UDS_MOOP_RDFILE"

\* 0xEDB88320
CRC32_POLY == << 60856, 33568 >>

\* for (k = 0; k < 8; k++) crc = (crc >> 1) ^ ((crc & 1) ? 0xEDB88320 : 0)
RECURSIVE Crc32Bits(_, _)
Crc32Bits(crc, k) ==
  IF k = 0 THEN crc
  ELSE Crc32Bits(IF crc[2] % 2 = 1 THEN U32Xor(U32Shr1(crc), CRC32_POLY) ELSE U32Shr1(crc),
                 k - 1)

\* while (len--) { crc ^= *data++; ... }
RECURSIVE Crc32Bytes(_, _)
Crc32Bytes(crc, data) ==
  IF data = << >> THEN crc
  ELSE Crc32Bytes(Crc32Bits(U32Xor(crc, << 0, Head(data) >>), 8), Tail(data))

\* (mutation) the CRC handed in is not inverted back before it is continued
crc32_calc_NoPreInvert(crc, data) == U32Not(Crc32Bytes(crc, data))

crc32_calc(crc, data) == U32Not(Crc32Bytes(U32Not(crc), data))

handle_file_request(ctx, args, orc, st) ==
  IF ctx = "NULL" THEN [result |-> UDS_NRC_ConditionsNotCorrect, st |-> st]
  ELSE
    LET \* 1. cleanup of the previous session
        st1 == IF st.file.fd >= 0
                 THEN [st EXCEPT !.os = os_close(st.os, st.file.fd),
                                 !.file.fd = -1, !.file.mode = FILE_MODE_IDLE]
                 ELSE st
    IN  IF args.filePathLen >= UDS_FILE_MAX_PATH_LEN
          THEN [result |-> UDS_NRC_RequestOutOfRange, st |-> st1]
        ELSE
          LET st2 == [st1 EXCEPT !.file.current_path = args.filePath,
                                 !.file.current_crc = U32Zero,
                                 !.file.moved = << >>]
          IN  IF args.modeOfOperation \in { UDS_MOOP_ADDFILE, UDS_MOOP_REPLFILE }
                THEN LET o == os_open_write(st2.os, args.filePath, orc.open_ok)
                         st3 == [st2 EXCEPT !.os = o.os, !.file.fd = o.fd]
                     IN  IF o.fd < 0
                           THEN [result |-> UDS_NRC_ConditionsNotCorrect, st |-> st3]
                           ELSE [result |-> UDS_PositiveResponse,
                                 st |-> [st3 EXCEPT !.file.total_size = args.fileSizeUnCompressed,
                                                    !.file.current_pos = 0,
                                                    !.file.mode = FILE_MODE_WRITING]]
              ELSE IF args.modeOfOperation = UDS_MOOP_RDFILE
                THEN LET o == os_open_read(st2.os, args.filePath, orc.open_ok)
                         st3 == [st2 EXCEPT !.os = o.os, !.file.fd = o.fd]
                         size == os_stat(o.os, args.filePath, orc.stat_ok)
                     IN  IF o.fd < 0
                           THEN [result |-> UDS_NRC_RequestOutOfRange, st |-> st3]
                         ELSE IF size < 0
                           THEN [result |-> UDS_NRC_ConditionsNotCorrect,
                                 st |-> [st3 EXCEPT !.os = os_close(o.os, o.fd),
                                                    !.file.fd = -1]]
                         ELSE [result |-> UDS_PositiveResponse,
                               st |-> [st3 EXCEPT !.file.total_size = size,
                                                  !.file.current_pos = 0,
                                                  !.file.mode = FILE_MODE_READING]]
              ELSE [result |-> UDS_NRC_SubFunctionNotSupported, st |-> st2]

handle_transfer_data(ctx, args, orc, st) ==
  IF ctx = "NULL" \/ st.file.fd < 0 THEN [result |-> UDS_NRC_ConditionsNotCorrect, st |-> st]
  ELSE IF st.file.mode = FILE_MODE_WRITING
    THEN LET w == os_write(st.os, st.file.fd, args.data, orc.rw)
             st1 == [st EXCEPT !.os = w.os,
                               !.file.moved =
                                  IF w.rw_len = Len(args.data) THEN @ \o args.data ELSE @]
         IN  IF w.rw_len # Len(args.data)
               THEN [result |-> UDS_NRC_GeneralProgrammingFailure, st |-> st1]
               ELSE [result |-> UDS_PositiveResponse,
                     st |-> [st1 EXCEPT !.file.current_pos = st.file.current_pos + w.rw_len,
                                        !.file.current_crc =
                                           crc32_calc(st.file.current_crc, args.data)]]
  ELSE IF st.file.mode = FILE_MODE_READING
    THEN IF ~orc.malloc_ok THEN [result |-> UDS_NRC_ConditionsNotCorrect, st |-> st]
         ELSE LET bytes_to_read == Min(UDS_FILE_CHUNK_SIZE, args.maxRespLen)
                  r == os_read(st.os, st.file.fd, bytes_to_read, orc.rw)
                  st1 == [st EXCEPT !.os = r.os, !.file.moved = @ \o r.buf]
              IN  IF r.rw_len < 0
                    THEN [result |-> UDS_NRC_GeneralProgrammingFailure, st |-> st1]
                  ELSE IF r.rw_len > 0
                    THEN CopyResponse(
                           [st1 EXCEPT !.file.current_pos = st.file.current_pos + r.rw_len,
                                       !.file.current_crc =
                                          crc32_calc(st.file.current_crc, r.buf)],
                           r.buf)
                  ELSE CopyResponse(st1, << >>)
  ELSE [result |-> UDS_NRC_ConditionsNotCorrect, st |-> st]

\* close(ctx->fd); ctx->fd = -1; ctx->mode = FILE_MODE_IDLE
FileCloseSession(st) ==
  [st EXCEPT !.os = os_close(st.os, st.file.fd),
             !.file.fd = -1, !.file.mode = FILE_MODE_IDLE]

\* (mutation) on a CRC mismatch the file is closed and kept
handle_transfer_exit_KeepFile(ctx, args, orc, st) ==
  IF ctx = "NULL" THEN [result |-> UDS_NRC_ConditionsNotCorrect, st |-> st]
  ELSE IF st.file.fd < 0 THEN [result |-> UDS_NRC_RequestSequenceError, st |-> st]
  ELSE IF /\ st.file.mode = FILE_MODE_WRITING
          /\ Len(args.data) >= 4
          /\ U32FromBytes(args.data) # st.file.current_crc
    THEN [result |-> UDS_NRC_GeneralProgrammingFailure, st |-> FileCloseSession(st)]
  ELSE IF st.file.mode = FILE_MODE_READING /\ orc.has_copy
    THEN CopyResponse([st EXCEPT !.file.mode = FILE_MODE_IDLE],
                      U32Bytes(st.file.current_crc))
  ELSE [result |-> UDS_PositiveResponse, st |-> FileCloseSession(st)]

handle_transfer_exit(ctx, args, orc, st) ==
  IF ctx = "NULL" THEN [result |-> UDS_NRC_ConditionsNotCorrect, st |-> st]
  ELSE IF st.file.fd < 0 THEN [result |-> UDS_NRC_RequestSequenceError, st |-> st]
  ELSE IF /\ st.file.mode = FILE_MODE_WRITING
          /\ Len(args.data) >= 4
          /\ U32FromBytes(args.data) # st.file.current_crc
    THEN [result |-> UDS_NRC_GeneralProgrammingFailure,
          st |-> LET st1 == FileCloseSession(st)
                 IN  [st1 EXCEPT !.os = os_unlink(st1.os, st.file.current_path)]]
  ELSE IF st.file.mode = FILE_MODE_READING /\ orc.has_copy
    THEN CopyResponse([st EXCEPT !.file.mode = FILE_MODE_IDLE],
                      U32Bytes(st.file.current_crc))
  ELSE [result |-> UDS_PositiveResponse, st |-> FileCloseSession(st)]

\* (mutation) the timeout handler leaves the file open
handle_session_timeout_KeepOpen(ctx, args, orc, st) ==
  [result |-> RTT_UDS_CONTINUE, st |-> st]

handle_session_timeout(ctx, args, orc, st) ==
  IF ctx # "NULL" /\ st.file.fd >= 0
    THEN [result |-> RTT_UDS_CONTINUE, st |-> FileCloseSession(st)]
    ELSE [result |-> RTT_UDS_CONTINUE, st |-> st]

handle_general_log_timeout(ctx, args, orc, st) ==
  [result |-> RTT_UDS_CONTINUE, st |-> st]

(***************************************************************************)
(* Service 0x10: diagnostic session control                                *)
(***************************************************************************)
UDS_LEV_DS_DS == 1
UDS_LEV_DS_PRGS == 2
UDS_LEV_DS_EXTDS == 3
UDS_P2_MS_STD == 50
UDS_P2_STAR_MS_STD == 2000
UDS_P2_MS_EXT == 5000
UDS_P2_STAR_MS_EXT == 5000

\* args->p2_ms and args->p2_star_ms go into the positive response
handle_session_control(ctx, args, orc, st) ==
  CASE args.type = UDS_LEV_DS_DS ->
         CopyResponse(st, << UDS_P2_MS_STD, UDS_P2_STAR_MS_STD >>)
    [] args.type = UDS_LEV_DS_PRGS ->
         CopyResponse(st, << UDS_P2_MS_EXT, UDS_P2_STAR_MS_EXT >>)
    [] args.type = UDS_LEV_DS_EXTDS ->
         CopyResponse(st, << UDS_P2_MS_EXT, UDS_P2_STAR_MS_EXT >>)
    [] OTHER -> [result |-> UDS_NRC_SubFunctionNotSupported, st |-> st]

(***************************************************************************)
(* Service 0x31: the remote console                                        *)
(***************************************************************************)
RID_REMOTE_CONSOLE == 61440
REQUIRED_SEC_LEVEL == 1
UDS_LEV_RCTP_STR == 1
UDS_CONSOLE_CMD_BUF_SIZE == 128

\* "\n[TRUNCATED]\n"
ovf_msg == << "\n", "[", "T", "R", "U", "N", "C", "A", "T", "E", "D", "]", "\n" >>

\* what a capture has in hand: buffer is the C string that starts at buffer[0]
\* (the pos bytes before the terminator); log has, for every write of the
\* capture, the size asked for and the state the write has left
NoCapture == [buffer |-> << >>, pos |-> 0, overflow |-> FALSE, log |-> << >>]

\* req_ext_session, req_security: the build defines UDS_CONSOLE_REQ_EXT_SESSION,
\* UDS_CONSOLE_REQ_SECURITY; dev_registered: the virtual device is known to
\* the device layer
ConsoleConfig(req_ext_session, req_security) ==
  [req_ext_session |-> req_ext_session, req_security |-> req_security,
   dev_registered |-> FALSE, cap |-> NoCapture]

ConsoleLogged(c, size) ==
  [c EXCEPT !.log = Append(@, [size |-> size, buffer |-> c.buffer, pos |-> c.pos,
                                overflow |-> c.overflow])]

\* the write fits: memcpy, pos += size, the terminator
ConsoleStored(c, str) ==
  [c EXCEPT !.buffer = SubSeq(c.buffer, 1, c.pos) \o str, !.pos = c.pos + Len(str)]

\* (mutation) the overflow is not remembered
ConsoleMarked_NoFlag(c, kept) ==
  [c EXCEPT !.buffer = kept \o ovf_msg, !.pos = Len(kept) + Len(ovf_msg)]

\* the marker goes behind the pos bytes that are kept; the flag is set
ConsoleMarked(c, kept) ==
  [c EXCEPT !.buffer = kept \o ovf_msg, !.pos = Len(kept) + Len(ovf_msg),
            !.overflow = TRUE]

\* the overflow branch: with room for more than the marker the head of str is
\* kept too; with less room than the marker needs, pos steps back
ConsoleTruncated(c, str, available, ovf_len) ==
  IF available > ovf_len
    THEN ConsoleMarked(c, SubSeq(c.buffer, 1, c.pos) \o SubSeq(str, 1, available - ovf_len))
  ELSE IF available < ovf_len
    THEN (IF c.pos >= ovf_len - available
            THEN ConsoleMarked(c, SubSeq(c.buffer, 1, c.pos - (ovf_len - available)))
            ELSE ConsoleMarked(c, << >>))
  ELSE ConsoleMarked(c, SubSeq(c.buffer, 1, c.pos))

ConsoleAvailable(c) == UDS_CONSOLE_BUF_SIZE - c.pos - 1

vcon_write(c, str) ==
  IF c.overflow THEN ConsoleLogged(c, Len(str))
  ELSE IF Len(str) <= ConsoleAvailable(c)
    THEN ConsoleLogged(ConsoleStored(c, str), Len(str))
  ELSE ConsoleLogged(ConsoleTruncated(c, str, ConsoleAvailable(c), Len(ovf_msg)), Len(str))

\* the writes of a command, one after the other
RECURSIVE ConsoleWrites(_, _)
ConsoleWrites(c, writes) ==
  IF writes = << >> THEN c
  ELSE ConsoleWrites(vcon_write(c, Head(writes)), Tail(writes))

\* rt_device_find finds the device that rt_device_register has made known
capture_start(con) ==
  [ret |-> IF con.dev_registered THEN "RT_EOK" ELSE "-RT_ERROR",
   con |-> [con EXCEPT !.cap = NoCapture]]

\* rt_kprintf("> %s\n", cmd_line): one write to the console device
ConsoleEcho(cmd_line) == << ">", " " >> \o cmd_line \o << "\n" >>

\* the bytes of args->optionRecord: args->len times the letter c
OptionRecord(len) == [i \in 1..len |-> "c"]

\* args->copyStatusRecord(srv, ctx->buffer, ctx->pos)
ConsoleRespond(st, orc) ==
  IF orc.has_copy
    THEN CopyResponse(st, SubSeq(st.console.cap.buffer, 1, st.console.cap.pos))
    ELSE [result |-> UDS_PositiveResponse, st |-> st]

\* from capture_start on; orc.writes: what msh_exec prints for the command
ConsoleExec(st, started, args, orc) ==
  IF started.ret # "RT_EOK"
    THEN [result |-> UDS_NRC_ConditionsNotCorrect, st |-> [st EXCEPT !.console = started.con]]
    ELSE ConsoleRespond(
           [st EXCEPT !.console.cap =
              ConsoleWrites(vcon_write(started.con.cap, ConsoleEcho(OptionRecord(args.len))),
                            orc.writes)],
           orc)

handle_remote_console(ctx, args, orc, st) ==
  IF ctx = "NULL" THEN [result |-> UDS_NRC_ConditionsNotCorrect, st |-> st]
  ELSE IF /\ st.console.req_ext_session
          /\ st.sessionType # UDS_LEV_DS_EXTDS /\ st.sessionType # UDS_LEV_DS_PRGS
    THEN [result |-> UDS_NRC_ServiceNotSupportedInActiveSession, st |-> st]
  ELSE IF st.console.req_security /\ st.securityLevel < REQUIRED_SEC_LEVEL
    THEN [result |-> UDS_NRC_SecurityAccessDenied, st |-> st]
  ELSE IF args.ctrlType # UDS_LEV_RCTP_STR
    THEN [result |-> UDS_NRC_SubFunctionNotSupported, st |-> st]
  ELSE IF args.id # RID_REMOTE_CONSOLE
    THEN [result |-> UDS_NRC_RequestOutOfRange, st |-> st]
  ELSE IF args.len = 0 \/ args.len >= UDS_CONSOLE_CMD_BUF_SIZE
    THEN [result |-> UDS_NRC_IncorrectMessageLengthOrInvalidFormat, st |-> st]
  ELSE ConsoleExec(st, capture_start(st.console), args, orc)

\* node->handler(srv, data, node->context)
InvokeHandler(L, nd, args, orc, st) ==
  CASE nd.handler = "user" -> [result |-> orc.user[nd.name], st |-> st]
    [] nd.handler = "handle_general_log_timeout" ->
         handle_general_log_timeout(nd.context, args, orc, st)
    [] nd.handler = "handle_request_seed" -> handle_request_seed(nd.context, args, orc, st)
    [] nd.handler = "handle_validate_key" -> handle_validate_key(nd.context, args, orc, st)
    [] nd.handler = "handle_sec_session_timeout" ->
         handle_sec_session_timeout(nd.context, args, orc, st)
    [] nd.handler = "handle_io_control_dispatch" ->
         handle_io_control_dispatch(L, nd.context, args, orc, st)
    [] nd.handler = "handle_io_session_timeout" ->
         handle_io_session_timeout(L, nd.context, args, orc, st)
    [] nd.handler = "handle_file_request" -> handle_file_request(nd.context, args, orc, st)
    [] nd.handler = "handle_transfer_data" -> handle_transfer_data(nd.context, args, orc, st)
    [] nd.handler = "handle_transfer_exit" -> handle_transfer_exit(nd.context, args, orc, st)
    [] nd.handler = "handle_session_timeout" ->
         handle_session_timeout(nd.context, args, orc, st)
    [] nd.handler = "handle_session_control" ->
         handle_session_control(nd.context, args, orc, st)
    [] nd.handler = "handle_remote_console" ->
         handle_remote_console(nd.context, args, orc, st)

(***************************************************************************)
(* server_event_dispatcher                                                 *)
(***************************************************************************)
\* (mutation) a rejection by a handler does not end the dispatch
DispatchStep_RejectGoesOn(result, final_result) ==
  IF result = RTT_UDS_CONTINUE
    THEN [stop |-> FALSE, final_result |-> UDS_PositiveResponse]
  ELSE IF result = UDS_PositiveResponse
          \/ result = UDS_NRC_RequestCorrectlyReceived_ResponsePending
    THEN [stop |-> TRUE, final_result |-> result]
  ELSE [stop |-> FALSE, final_result |-> final_result]

\* (mutation) RTT_UDS_CONTINUE is not remembered in final_result
DispatchStep_ContinueForgotten(result, final_result) ==
  IF result = RTT_UDS_CONTINUE
    THEN [stop |-> FALSE, final_result |-> final_result]
  ELSE IF result = UDS_PositiveResponse
          \/ result = UDS_NRC_RequestCorrectlyReceived_ResponsePending
    THEN [stop |-> TRUE, final_result |-> result]
  ELSE IF result = UDS_NRC_RequestOutOfRange
          \/ result = UDS_NRC_SubFunctionNotSupported
    THEN [stop |-> FALSE, final_result |-> final_result]
  ELSE [stop |-> TRUE, final_result |-> result]

\* (mutation) only RequestOutOfRange is taken as "not mine"
DispatchStep_OnlyOutOfRange(result, final_result) ==
  IF result = RTT_UDS_CONTINUE
    THEN [stop |-> FALSE, final_result |-> UDS_PositiveResponse]
  ELSE IF result = UDS_PositiveResponse
          \/ result = UDS_NRC_RequestCorrectlyReceived_ResponsePending
    THEN [stop |-> TRUE, final_result |-> result]
  ELSE IF result = UDS_NRC_RequestOutOfRange
    THEN [stop |-> FALSE, final_result |-> final_result]
  ELSE [stop |-> TRUE, final_result |-> result]

\* (mutation) a positive result is taken like RTT_UDS_CONTINUE
DispatchStep_PositiveGoesOn(result, final_result) ==
  IF result = RTT_UDS_CONTINUE \/ result = UDS_PositiveResponse
    THEN [stop |-> FALSE, final_result |-> UDS_PositiveResponse]
  ELSE IF result = UDS_NRC_RequestCorrectlyReceived_ResponsePending
    THEN [stop |-> TRUE, final_result |-> result]
  ELSE IF result = UDS_NRC_RequestOutOfRange
          \/ result = UDS_NRC_SubFunctionNotSupported
    THEN [stop |-> FALSE, final_result |-> final_result]
  ELSE [stop |-> TRUE, final_result |-> result]

\* one handler result, classified as the loop body does
DispatchStep(result, final_result) ==
  IF result = RTT_UDS_CONTINUE
    THEN [stop |-> FALSE, final_result |-> UDS_PositiveResponse]
  ELSE IF result = UDS_PositiveResponse
          \/ result = UDS_NRC_RequestCorrectlyReceived_ResponsePending
    THEN [stop |-> TRUE, final_result |-> result]
  ELSE IF result = UDS_NRC_RequestOutOfRange
          \/ result = UDS_NRC_SubFunctionNotSupported
    THEN [stop |-> FALSE, final_result |-> final_result]
  ELSE [stop |-> TRUE, final_result |-> result]

\* the loop over the chain; acc carries final_result, the service state and the trace
RECURSIVE DispatchLoop(_, _, _, _, _, _)
DispatchLoop(L, head, pos, args, orc, acc) ==
  IF pos = head THEN [acc EXCEPT !.ret = acc.final_result]
  ELSE IF L.node[pos].handler = "NULL"
    THEN DispatchLoop(L, head, L.next[pos], args, orc, acc)
  ELSE LET h == InvokeHandler(L, L.node[pos], args, orc, acc.st)
           c == DispatchStep(h.result, acc.final_result)
           a == [acc EXCEPT !.st = h.st,
                            !.invoked = Append(acc.invoked, pos),
                            !.results = Append(acc.results, h.result),
                            !.final_result = c.final_result]
       IN  IF c.stop THEN [a EXCEPT !.ret = h.result]
           ELSE DispatchLoop(L, head, L.next[pos], args, orc, a)

server_event_dispatcher(L, evt, args, orc, st) ==
  LET acc0 == [final_result |-> UDS_NRC_ServiceNotSupported, st |-> st,
               invoked |-> << >>, results |-> << >>,
               ret |-> "none"]
  IN  IF ~EvtInTable(evt) THEN [acc0 EXCEPT !.ret = UDS_NRC_GeneralReject]
      ELSE IF rt_list_isempty(L, evt)
        THEN [acc0 EXCEPT !.ret = UDS_NRC_ServiceNotSupported]
      ELSE DispatchLoop(L, evt, L.next[evt], args, orc, acc0)

(***************************************************************************)
(* Mounting and unmounting the services                                    *)
(***************************************************************************)
RTT_UDS_SERVICE_NODE_INIT(L, n, evt, handler, ctx, prio) ==
  LET L1 == rt_list_init(L, n)
  IN  [L1 EXCEPT !.node[n] = [name |-> n, event |-> evt, priority |-> prio,
                              context |-> ctx, handler |-> handler]]

rtt_uds_sec_service_mount(L, svc) ==
  LET seed == SecNodeOf(svc, "req_seed_node")
      key == SecNodeOf(svc, "val_key_node")
      tmo == SecNodeOf(svc, "timeout_node")
      L1 == RTT_UDS_SERVICE_NODE_INIT(L, seed, UDS_EVT_SecAccessRequestSeed,
                                      "handle_request_seed", svc, RTT_UDS_PRIO_NORMAL)
      L2 == RTT_UDS_SERVICE_NODE_INIT(L1, key, UDS_EVT_SecAccessValidateKey,
                                      "handle_validate_key", svc, RTT_UDS_PRIO_NORMAL)
      L3 == RTT_UDS_SERVICE_NODE_INIT(L2, tmo, UDS_EVT_SessionTimeout,
                                      "handle_sec_session_timeout", svc, RTT_UDS_PRIO_HIGH)
      r1 == rtt_uds_service_register(L3, seed)
      r2 == rtt_uds_service_register(r1.L, key)
      r3 == rtt_uds_service_register(r2.L, tmo)
  IN  IF r1.ret # "RT_EOK" THEN r1
      ELSE IF r2.ret # "RT_EOK" THEN r2
      ELSE r3

rtt_uds_sec_service_unmount(L, svc) ==
  LET L1 == rtt_uds_service_unregister(L, SecNodeOf(svc, "req_seed_node"))
      L2 == rtt_uds_service_unregister(L1, SecNodeOf(svc, "val_key_node"))
  IN  rtt_uds_service_unregister(L2, SecNodeOf(svc, "timeout_node"))

log_timeout_node_register(L) == rtt_uds_service_register(L, LogTimeoutNode).L

rtt_uds_io_service_mount(L, svc) ==
  LET L1 == RTT_UDS_SERVICE_NODE_INIT(L, IoCtrlNode, UDS_EVT_IOControl,
                                      "handle_io_control_dispatch", svc, RTT_UDS_PRIO_NORMAL)
      L2 == RTT_UDS_SERVICE_NODE_INIT(L1, IoTimeoutNode, UDS_EVT_SessionTimeout,
                                      "handle_io_session_timeout", svc, RTT_UDS_PRIO_HIGH)
      r1 == rtt_uds_service_register(L2, IoCtrlNode)
  IN  IF r1.ret # "RT_EOK" THEN r1 ELSE rtt_uds_service_register(r1.L, IoTimeoutNode)

rtt_uds_io_service_unmount(L, svc) ==
  rtt_uds_service_unregister(rtt_uds_service_unregister(L, IoCtrlNode), IoTimeoutNode)

\* the application's IO nodes all have a callback (RTT_UDS_IO_NODE_DEFINE)
IoHandlerOf(n) == "user_io"

uds_io_register_node(L, flags, svc, n) ==
  IF svc = "NULL" \/ n = "NULL" \/ IoHandlerOf(n) = "NULL"
    THEN [ret |-> "-RT_EINVAL", L |-> L, is_overridden |-> flags]
  ELSE IF ~rt_list_isempty(L, n)
    THEN [ret |-> "-RT_EBUSY", L |-> L, is_overridden |-> flags]
  ELSE [ret |-> "RT_EOK", L |-> rt_list_insert_before(L, IoNodeList, n),
        is_overridden |-> [flags EXCEPT ![n] = 0]]

uds_io_unregister_node(L, svc, n) ==
  IF svc = "NULL" \/ n = "NULL" THEN L
  ELSE IF rt_list_isempty(L, n) THEN L
  ELSE rt_list_init(rt_list_remove(L, n), n)

\* "Config Handlers": the four RTT_UDS_SERVICE_NODE_INIT of the mount
FileNodesInit(L, svc) ==
  LET L1 == RTT_UDS_SERVICE_NODE_INIT(L, FileReqNode, UDS_EVT_RequestFileTransfer,
                                      "handle_file_request", svc, RTT_UDS_PRIO_NORMAL)
      L2 == RTT_UDS_SERVICE_NODE_INIT(L1, FileDataNode, UDS_EVT_TransferData,
                                      "handle_transfer_data", svc, RTT_UDS_PRIO_NORMAL)
      L3 == RTT_UDS_SERVICE_NODE_INIT(L2, FileExitNode, UDS_EVT_RequestTransferExit,
                                      "handle_transfer_exit", svc, RTT_UDS_PRIO_NORMAL)
  IN  RTT_UDS_SERVICE_NODE_INIT(L3, FileTimeoutNode, UDS_EVT_SessionTimeout,
                                "handle_session_timeout", svc, RTT_UDS_PRIO_HIGHEST)

\* the results of the four registrations are not looked at
rtt_uds_file_service_mount(L, svc) ==
  LET L4 == FileNodesInit(L, svc)
      r1 == rtt_uds_service_register(L4, FileReqNode)
      r2 == rtt_uds_service_register(r1.L, FileDataNode)
      r3 == rtt_uds_service_register(r2.L, FileExitNode)
      r4 == rtt_uds_service_register(r3.L, FileTimeoutNode)
  IN  [ret |-> "RT_EOK", L |-> r4.L]

\* rt_device_register refuses a device whose name is known already
rtt_uds_console_service_mount(L, con, svc) ==
  IF con.dev_registered THEN [ret |-> "-RT_ERROR", L |-> L, con |-> con]
  ELSE LET L1 == RTT_UDS_SERVICE_NODE_INIT(L, ConsoleNode, UDS_EVT_RoutineCtrl,
                                           "handle_remote_console", svc,
                                           RTT_UDS_PRIO_NORMAL)
           r == rtt_uds_service_register(L1, ConsoleNode)
       IN  [ret |-> r.ret, L |-> r.L, con |-> [con EXCEPT !.dev_registered = TRUE]]

rtt_uds_console_service_unmount(L, con, svc) ==
  [L |-> rtt_uds_service_unregister(L, ConsoleNode),
   con |-> [con EXCEPT !.dev_registered = FALSE]]

\* RTT_UDS_SERVICE_DEFINE_OPS(session_control_node, UDS_EVT_DiagSessCtrl,
\* handle_session_control)
SessionControlNodeDef ==
  [name |-> SessionControlNode, event |-> UDS_EVT_DiagSessCtrl,
   priority |-> RTT_UDS_PRIO_NORMAL, context |-> "NULL",
   handler |-> "handle_session_control"]

rtt_uds_file_service_unmount(L, svc) ==
  LET L1 == rtt_uds_service_unregister(L, FileReqNode)
      L2 == rtt_uds_service_unregister(L1, FileDataNode)
      L3 == rtt_uds_service_unregister(L2, FileExitNode)
  IN  rtt_uds_service_unregister(L3, FileTimeoutNode)

FileMounted(L) == \A n \in FileNodes : ~rt_list_isempty(L, n)

IoMounted(L) == ~rt_list_isempty(L, IoCtrlNode) /\ ~rt_list_isempty(L, IoTimeoutNode)

\* the IO nodes registered with the IO service, in list order
IoRegistered(L) == ListWalk(L, IoNodeList, L.next[IoNodeList])

\* a service object is mounted when its nodes are linked into the table
SecMounted(L, svc) == \A n \in SecNodes(svc) : ~rt_list_isempty(L, n)

(***************************************************************************)
(* The client: the UDS context of the client demo (uds_context.c), the     *)
(* client core it drives (UDSClient_t, polled by uds_poll) and the shell   *)
(* loop with its heartbeat (client_shell.c).                               *)
(***************************************************************************)
MAX_HEARTBEAT_RETRIES == 3
\* int retry = 10 of client_send_console_command
CONSOLE_IDLE_RETRIES == 10

\* UDSErr_t words: UDS_OK, a negative response code (0x00XX), errors of the library
UDS_OK == 0
UDS_NRC_RequestOutOfRange_Word == 49
UDS_ERR_TIMEOUT == 256
UDS_ERR_TPORT == 260
UDS_ERR_BUSY == 264

\* UDSClient_t.state: 0 is Idle
STATE_IDLE == "Idle"
STATE_SENDING == "Sending"
STATE_AWAIT_SEND_COMPLETE == "AwaitSendComplete"
STATE_AWAIT_RESPONSE == "AwaitResponse"

UDS_EVT_ResponseReceived == "UDS_EVT_ResponseReceived"
UDS_EVT_Err == "UDS_EVT_Err"
UDS_EVT_SendComplete == "UDS_EVT_SendComplete"
UDS_EVT_Idle == "UDS_EVT_Idle"

\* 0xA5A5A5A5
SECRET_KEY_MASK == << 42405, 42405 >>

calc_key(seed) == U32Xor(seed, SECRET_KEY_MASK)

\* 0x40 + 0x27, the first byte of a positive SecurityAccess response
SID_SECURITY_ACCESS_RESPONSE == 103

\* what client_perform_security has done: pc is "key" between its two
\* transactions, recv is the response to the seed request, ret the value returned
NoAuth ==
  [pc |-> "idle", level |-> 0, recv |-> << >>, key |-> << >>, key_sent |-> FALSE,
   ret |-> 0, returned |-> FALSE, unlocked_before |-> FALSE]

\* client_perform_security from the return of the first
\* uds_wait_transaction_result (wait_ret) on, recv being recv_buf[0..recv_size-1]:
\* the value returned, or the key to send next
client_perform_security_seed(level, wait_ret, recv) ==
  IF wait_ret # 0 THEN [ret |-> -1, send_key |-> FALSE, key |-> << >>]
  ELSE IF recv[1] = SID_SECURITY_ACCESS_RESPONSE /\ recv[2] = level /\ Len(recv) >= 6
    THEN [ret |-> 0, send_key |-> TRUE,
          key |-> U32Bytes(calc_key(U32FromBytes(SubSeq(recv, 3, 6))))]
  ELSE IF recv[1] = SID_SECURITY_ACCESS_RESPONSE /\ recv[2] = level /\ Len(recv) >= 2
    THEN [ret |-> 0, send_key |-> FALSE, key |-> << >>]
  ELSE [ret |-> -1, send_key |-> FALSE, key |-> << >>]

\* the array the upload reads a block into
BLOCK_SIZE_BUFFER == 4095

\* what is remembered of the last upload of a path that returned 0: the bytes of
\* the local file
NoUpload == [ok |-> FALSE, B |-> << >>]

\* handle_upload and handle_download: pc is the place inside the command, local
\* the client's file system, payload_len .. last_data the locals of the command
\* (last_data is recv_buf[2..] as the last TransferData response left it); the
\* fields from cmd on are history
NoXfer ==
  [pc |-> "idle", path |-> "none",
   local |-> [p \in { "/a.bin", "/b.bin" } |-> [exists |-> FALSE, data |-> << >>]],
   payload_len |-> 0, sent_bytes |-> 0, crc |-> << 0, 0 >>, total_size |-> 0,
   received_bytes |-> 0, last_data |-> << >>,
   cmd |-> "none", ret |-> 0, returned |-> FALSE,
   cause |-> "none",        \* the transaction a return of -1 came from
   write_failed |-> FALSE,  \* an fwrite of the download took less than it was given
   uploaded |-> [p \in { "/a.bin", "/b.bin" } |-> NoUpload]]

\* max_chunk = (resp.maxNumberOfBlockLength < 3) ? 4095 : ...; payload_len = max_chunk - 2
UploadPayloadLen(maxNumberOfBlockLength) ==
  (IF maxNumberOfBlockLength < 3 THEN BLOCK_SIZE_BUFFER ELSE maxNumberOfBlockLength) - 2

\* the values client_shell_loop returns
SHELL_EXIT_USER == 0
SHELL_EXIT_TIMEOUT == -1

\* what is remembered of step 5 of the loop turn made last
NoHb == [tried |-> FALSE, ret |-> 0, pre_count |-> 0, pre_out |-> 0, pre_state |-> STATE_IDLE]

\* what is remembered of the transaction that ended last
NoTxn ==
  [kind |-> "none", send_ok |-> FALSE, responded |-> FALSE, timed_out |-> FALSE,
   nrc |-> 0, ok |-> FALSE]

\* the locals of a call of uds_wait_transaction_result: where the call is, its
\* timeout_ms, sys_tick_get_ms() - start_time at the last reading (uint32_t
\* arithmetic: the time that passed, as long as it is below 2^32 ms), whether
\* sys_delay_ms(1) has run in this call, elapsed_loops (as far as the spinner
\* looks at it: modulo SPINNER_LOOPS) and the value returned
SPINNER_LOOPS == 100
NoWait ==
  [pc |-> "idle", timeout_ms |-> 0, elapsed |-> 0, delayed |-> FALSE,
   elapsed_loops |-> 0, ret |-> 0]

\* history: the line the shell read last: whether its first word is a registered
\* local command ("local"; "local_invalid" when the handler rejects the
\* arguments) or not ("unknown"), whether client_send_console_command was called
\* with it, and whether the client core accepted a request for it
NoLine == [kind |-> "none", forwarded |-> FALSE, transmitted |-> FALSE]

\* the client after uds_context_init, client_shell_init and the entry of
\* client_shell_loop.  The fields after blocks are history.
InitClient ==
  [pc |-> "top",
   state |-> STATE_IDLE, suppress |-> FALSE,
   g_response_received |-> FALSE, g_last_nrc |-> 0, g_heartbeat_fail_count |-> 0,
   g_disconnect_cb |-> "client_on_disconnect", g_shell_force_exit |-> 0,
   cmd |-> "none", retry |-> 0, blocks |-> 0,
   cb_calls |-> 0,        \* calls of the disconnect callback in this shell session
   hb_streak |-> 0,       \* heartbeat sends that failed in a row
   run |-> 0,             \* failures counted since the last heartbeat that was sent
   fire_run |-> 0,        \* run when the callback was called last
   fire_count |-> 0,      \* g_heartbeat_fail_count when the callback was called last
   outstanding |-> 0,     \* requests sent and not yet completed
   req_status |-> "none", \* what became of the request sent last
   prev_at_send |-> "none", \* req_status of the request before, when the last was sent
   got_resp |-> FALSE,    \* ResponseReceived was delivered since uds_prepare_request
   blk_send_ok |-> FALSE, \* the send of the block in flight returned UDS_OK
   txn |-> NoTxn,
   hb_due |-> FALSE,      \* now - last_heartbeat_ts > CLIENT_HEARTBEAT_MS
   exit_code |-> SHELL_EXIT_USER,
   since_resp |-> 0,      \* failures counted since the last ResponseReceived
   resp_cleared |-> 0,    \* the count the last ResponseReceived found
   hb |-> NoHb,
   auth |-> NoAuth,
   xfer |-> NoXfer,
   wait |-> NoWait,
   line |-> NoLine]

\* (mutation) the callback restores the terminal only
client_on_disconnect_NoFlag(c) ==
  [c EXCEPT !.cb_calls = @ + 1, !.fire_run = c.run, !.fire_count = c.g_heartbeat_fail_count]

\* the shell's callback: linenoiseEditStop, g_shell_force_exit = 1
client_on_disconnect(c) ==
  [c EXCEPT !.g_shell_force_exit = 1, !.cb_calls = @ + 1,
            !.fire_run = c.run, !.fire_count = c.g_heartbeat_fail_count]

trigger_disconnect_logic(c) ==
  IF c.g_disconnect_cb # "NULL" THEN client_on_disconnect(c) ELSE c

\* g_heartbeat_fail_count++ and the threshold check that follows it at each of the
\* three places that count a failure
FailCountTick(c) ==
  LET c1 == [c EXCEPT !.g_heartbeat_fail_count = @ + 1, !.run = @ + 1,
                      !.since_resp = @ + 1]
  IN  IF c1.g_heartbeat_fail_count >= MAX_HEARTBEAT_RETRIES
        THEN trigger_disconnect_logic(c1)
        ELSE c1

\* tp_err: the status of original_tp_poll has the bit UDS_TP_ERR
intercepted_tp_poll(c, tp_err) == IF tp_err THEN FailCountTick(c) ELSE c

\* (err & 0xFF00) == 0 ? (uint8_t)err : 0xFF
NrcOfErr(err) == IF (err \div 256) % 256 = 0 THEN err % 256 ELSE 255

\* (mutation) a response leaves the fail count as it is
client_event_handler_KeepCount(c, evt, err) ==
  CASE evt = UDS_EVT_ResponseReceived ->
         [c EXCEPT !.g_response_received = TRUE, !.g_last_nrc = 0,
                   !.run = 0, !.hb_streak = 0, !.got_resp = TRUE,
                   !.since_resp = 0, !.resp_cleared = c.g_heartbeat_fail_count]
    [] evt = UDS_EVT_Err ->
         LET c1 == [c EXCEPT !.g_last_nrc = NrcOfErr(err)]
             c2 == IF err = UDS_ERR_TPORT THEN FailCountTick(c1) ELSE c1
         IN  [c2 EXCEPT !.g_response_received = TRUE]
    [] OTHER -> c

client_event_handler(c, evt, err) ==
  CASE evt = UDS_EVT_ResponseReceived ->
         [c EXCEPT !.g_response_received = TRUE, !.g_last_nrc = 0,
                   !.g_heartbeat_fail_count = 0,
                   !.run = 0, !.hb_streak = 0, !.got_resp = TRUE,
                   !.since_resp = 0, !.resp_cleared = c.g_heartbeat_fail_count]
    [] evt = UDS_EVT_Err ->
         LET c1 == [c EXCEPT !.g_last_nrc = NrcOfErr(err)]
             c2 == IF err = UDS_ERR_TPORT THEN FailCountTick(c1) ELSE c1
         IN  [c2 EXCEPT !.g_response_received = TRUE]
    [] OTHER -> c

uds_prepare_request(c) ==
  [c EXCEPT !.g_response_received = FALSE, !.g_last_nrc = 0, !.got_resp = FALSE,
            !.resp_cleared = 0]

\* send_<service> of the client core: a request is taken only by an idle client
\* (UDS_ERR_BUSY otherwise); tp_ok is the outcome of the transport's send
UDSClientSend_AcceptsWhenBusy(c, suppress, tp_ok) ==
  IF ~tp_ok
    THEN [err |-> UDS_ERR_TPORT, c |-> c]
    ELSE [err |-> UDS_OK,
          c |-> [c EXCEPT !.state = STATE_SENDING, !.suppress = suppress,
                          !.outstanding = @ + 1, !.req_status = "pending",
                          !.prev_at_send = c.req_status]]

\* as UDSClientSend, but a client that awaits a response takes the next request
UDSClientSend_BusyOnlyWhileSending(c, suppress, tp_ok) ==
  IF c.state = STATE_SENDING \/ c.state = STATE_AWAIT_SEND_COMPLETE
    THEN [err |-> UDS_ERR_BUSY, c |-> c]
    ELSE UDSClientSend_AcceptsWhenBusy(c, suppress, tp_ok)

UDSClientSend(c, suppress, tp_ok) ==
  IF c.state # STATE_IDLE
    THEN [err |-> UDS_ERR_BUSY, c |-> c]
    ELSE IF ~tp_ok
      THEN [err |-> UDS_ERR_TPORT, c |-> c]
      ELSE [err |-> UDS_OK,
            c |-> [c EXCEPT !.state = STATE_SENDING, !.suppress = suppress,
                            !.outstanding = @ + 1, !.req_status = "pending",
                            !.prev_at_send = c.req_status]]

\* the request in flight is over: the client core is idle again
CoreIdle(c, status) ==
  [c EXCEPT !.state = STATE_IDLE, !.outstanding = IF @ > 0 THEN @ - 1 ELSE 0,
            !.req_status = status]

\* what a poll of the client core may find, by the state it is in
CoreSteps(c, tp_err) ==
  {"none"}
    \cup (IF c.state = STATE_SENDING \/ c.state = STATE_AWAIT_SEND_COMPLETE
            THEN {"progress"} ELSE {})
    \cup (IF c.state = STATE_AWAIT_RESPONSE THEN {"response", "nrc", "timeout"} ELSE {})
    \cup (IF c.state # STATE_IDLE /\ tp_err THEN {"tport"} ELSE {})

\* UDSClientPoll: polls the transport (through the hook installed by
\* uds_context_init), advances the state and emits the events
UDSClientPoll(c, tp_err, step) ==
  LET c1 == intercepted_tp_poll(c, tp_err)
  IN  CASE step = "progress" /\ c1.state = STATE_SENDING ->
             [c1 EXCEPT !.state = STATE_AWAIT_SEND_COMPLETE]
        [] step = "progress" /\ c1.state = STATE_AWAIT_SEND_COMPLETE ->
             IF c1.suppress
               THEN CoreIdle(c1, "no_response_expected")
               ELSE [c1 EXCEPT !.state = STATE_AWAIT_RESPONSE]
        [] step = "response" ->
             client_event_handler(CoreIdle(c1, "answered"), UDS_EVT_ResponseReceived, UDS_OK)
        [] step = "nrc" ->
             client_event_handler(CoreIdle(c1, "rejected"), UDS_EVT_Err,
                                  UDS_NRC_RequestOutOfRange_Word)
        [] step = "timeout" ->
             client_event_handler(CoreIdle(c1, "timed_out"), UDS_EVT_Err, UDS_ERR_TIMEOUT)
        [] step = "tport" ->
             client_event_handler(CoreIdle(c1, "transport_error"), UDS_EVT_Err, UDS_ERR_TPORT)
        [] OTHER -> c1

uds_poll(c, tp_err, step) == UDSClientPoll(c, tp_err, step)

\* the value uds_wait_transaction_result returns: 0 or -1
uds_wait_transaction_result_IgnoresNrc(send_err, timed_out, g_last_nrc) ==
  IF send_err # UDS_OK THEN -1
  ELSE IF timed_out THEN -1
  ELSE 0

uds_wait_transaction_result(send_err, timed_out, g_last_nrc) ==
  IF send_err # UDS_OK THEN -1
  ELSE IF timed_out THEN -1
  ELSE IF g_last_nrc # 0 THEN -1
  ELSE 0

\* (mutation) a heartbeat that finds the client busy counts as a failure
uds_send_heartbeat_safe_CountsBusy(c, tp_ok) ==
  IF c.state # STATE_IDLE
    THEN [ret |-> -1, c |-> FailCountTick(c)]
    ELSE LET s == UDSClientSend(c, TRUE, tp_ok)
         IN  IF s.err # UDS_OK
               THEN [ret |-> -2, c |-> FailCountTick([s.c EXCEPT !.hb_streak = @ + 1])]
               ELSE [ret |-> 0, c |-> [s.c EXCEPT !.hb_streak = 0, !.run = 0]]

\* uds_send_heartbeat_safe: [ret, c]
uds_send_heartbeat_safe(c, tp_ok) ==
  IF c.state # STATE_IDLE
    THEN [ret |-> -1, c |-> c]
    ELSE LET s == UDSClientSend(c, TRUE, tp_ok)
         IN  IF s.err # UDS_OK
               THEN [ret |-> -2, c |-> FailCountTick([s.c EXCEPT !.hb_streak = @ + 1])]
               ELSE [ret |-> 0, c |-> [s.c EXCEPT !.hb_streak = 0, !.run = 0]]

\* uds_context_init, client_shell_init and the entry of client_shell_loop
uds_context_init(c) == InitClient

(***************************************************************************)
(* The consumer thread of the server (uds_thread_entry of iso14229_rtt.c,  *)
(* uds_task_entry of the example): it takes the CAN frames the receive     *)
(* callback queued, feeds them to the ISO-TP links and polls the server,   *)
(* which dispatches the events over the chains of the event table.         *)
(***************************************************************************)
ISOTP_RECEIVE_STATUS_IDLE == "ISOTP_RECEIVE_STATUS_IDLE"
ISOTP_RECEIVE_STATUS_INPROGRESS == "ISOTP_RECEIVE_STATUS_INPROGRESS"
ISOTP_RECEIVE_STATUS_FULL == "ISOTP_RECEIVE_STATUS_FULL"
ReceiveStatuses ==
  { ISOTP_RECEIVE_STATUS_IDLE, ISOTP_RECEIVE_STATUS_INPROGRESS, ISOTP_RECEIVE_STATUS_FULL }

\* rx_msg.id: tp.phys_sa, tp.func_sa, or any other id
FrameIds == { "phys_sa", "func_sa", "other" }

\* what is remembered of the frame taken from the queue last
NoFrame ==
  [id |-> "none", pre_phys |-> ISOTP_RECEIVE_STATUS_IDLE,
   pre_func |-> ISOTP_RECEIVE_STATUS_IDLE, route |-> "none"]

RT_EOK == "RT_EOK"
RT_EFULL == "-RT_EFULL"

\* what is remembered of the call of rtt_uds_feed_can_frame made last, until the
\* consumer thread runs again
NoFeed == [id |-> "none", ret |-> RT_EOK, logged |-> FALSE, pre_mq |-> << >>]

\* the thread when rtt_uds_create has started it.  The fields after
\* final_result are history.
InitThread ==
  [pc |-> "recv", rx_mq |-> << >>,
   phys_status |-> ISOTP_RECEIVE_STATUS_IDLE, func_status |-> ISOTP_RECEIVE_STATUS_IDLE,
   evt |-> "none", cursor |-> "none", final_result |-> UDS_NRC_ServiceNotSupported,
   last |-> NoFrame,
   owed |-> FALSE,          \* a frame was taken and UDSServerPoll not called since
   skipped_poll |-> FALSE,  \* rt_mq_recv was called with owed
   feed |-> NoFeed]         \* the call of rtt_uds_feed_can_frame made last

\* rt_mq_send: the message is copied to the tail of the queue; with no room the
\* call returns at once (wait time 0)
rt_mq_send(mq, msg) ==
  IF Len(mq) < MaxQueue THEN [ret |-> RT_EOK, mq |-> Append(mq, msg)]
                        ELSE [ret |-> RT_EFULL, mq |-> mq]

\* (mutation) with no room the oldest frame gives way to the new one
rtt_uds_feed_can_frame_Overwrite(t, id) ==
  LET full == Len(t.rx_mq) >= MaxQueue
  IN  [t EXCEPT !.rx_mq = IF full THEN Append(Tail(@), id) ELSE Append(@, id),
                !.feed = [id |-> id, ret |-> IF full THEN RT_EFULL ELSE RT_EOK,
                          logged |-> full, pre_mq |-> t.rx_mq]]

\* the frame is put into the queue; a failure of rt_mq_send is logged (LOG_E)
rtt_uds_feed_can_frame(t, id) ==
  LET r == rt_mq_send(t.rx_mq, id)
  IN  [t EXCEPT !.rx_mq = r.mq,
                !.feed = [id |-> id, ret |-> r.ret, logged |-> r.ret # RT_EOK,
                          pre_mq |-> t.rx_mq]]

FrameRecord(t, id, route) ==
  [id |-> id, pre_phys |-> t.phys_status, pre_func |-> t.func_status, route |-> route]

\* (mutation) the functional frame is fed whatever the physical link does
RouteFrame_NoBusyCheck(t, id, st) ==
  CASE id = "phys_sa" ->
         [t EXCEPT !.phys_status = st, !.last = FrameRecord(t, id, "phys"), !.pc = "poll"]
    [] id = "func_sa" ->
         [t EXCEPT !.func_status = st, !.last = FrameRecord(t, id, "func"), !.pc = "poll"]
    [] OTHER -> [t EXCEPT !.last = FrameRecord(t, id, "ignored"), !.pc = "poll"]

\* the frame goes to the ISO-TP link of its id; st is the receive_status
\* isotp_on_can_message leaves the link in.  A dropped frame ends the turn of the
\* loop (continue).
RouteFrame(t, id, st) ==
  CASE id = "phys_sa" ->
         [t EXCEPT !.phys_status = st, !.last = FrameRecord(t, id, "phys"), !.pc = "poll"]
    [] id = "func_sa" ->
         IF ISOTP_RECEIVE_STATUS_IDLE # t.phys_status
           THEN [t EXCEPT !.last = FrameRecord(t, id, "dropped"), !.pc = "recv"]
           ELSE [t EXCEPT !.func_status = st, !.last = FrameRecord(t, id, "func"),
                          !.pc = "poll"]
    [] OTHER -> [t EXCEPT !.last = FrameRecord(t, id, "ignored"), !.pc = "poll"]

\* rt_mq_recv and what follows it up to UDSServerPoll
ThreadRecvStep(t, st) ==
  LET t0 == [t EXCEPT !.skipped_poll = t.owed, !.last = NoFrame]
  IN  IF t.rx_mq = << >>
        THEN [t0 EXCEPT !.pc = "poll"]
        ELSE RouteFrame([t0 EXCEPT !.rx_mq = Tail(@), !.owed = TRUE], Head(t.rx_mq), st)

\* the head of server_event_dispatcher: the bounds check, the empty chain, the
\* first node of the loop
DispatchBegin(L, t, evt) ==
  IF ~EvtInTable(evt) \/ rt_list_isempty(L, evt)
    THEN [t EXCEPT !.pc = "recv"]
    ELSE [t EXCEPT !.pc = "dispatch", !.evt = evt, !.cursor = L.next[evt],
                   !.final_result = UDS_NRC_ServiceNotSupported]

DispatchEnd(t) ==
  [t EXCEPT !.pc = "recv", !.evt = "none", !.cursor = "none",
            !.final_result = UDS_NRC_ServiceNotSupported]

\* one turn of rt_list_for_each_entry in server_event_dispatcher: the handler of
\* the node under the cursor returned result; the cursor moves to node->list.next
\* as the list is then
DispatchNodeStep(L, t, result) ==
  LET c == IF L.node[t.cursor].handler = "NULL"
             THEN [stop |-> FALSE, final_result |-> t.final_result]
             ELSE DispatchStep(result, t.final_result)
  IN  IF c.stop \/ L.next[t.cursor] = t.evt
        THEN DispatchEnd(t)
        ELSE [t EXCEPT !.cursor = L.next[t.cursor], !.final_result = c.final_result]

\* UDSServerPoll: the links are polled (a receive in progress may time out, a
\* complete message is taken), and a request taken is dispatched as evt
UDSServerPoll(L, t, phys_timeout, evt) ==
  LET t1 == [t EXCEPT !.owed = FALSE, !.skipped_poll = FALSE, !.last = NoFrame,
                      !.phys_status =
                        IF @ = ISOTP_RECEIVE_STATUS_FULL
                             \/ (@ = ISOTP_RECEIVE_STATUS_INPROGRESS /\ phys_timeout)
                          THEN ISOTP_RECEIVE_STATUS_IDLE ELSE @,
                      !.func_status =
                        IF @ = ISOTP_RECEIVE_STATUS_FULL
                          THEN ISOTP_RECEIVE_STATUS_IDLE ELSE @,
                      !.pc = "recv"]
  IN  IF evt = "none" THEN t1 ELSE DispatchBegin(L, t1, evt)

\* a request is there to dispatch when a link holds a complete message
RequestReady(t) ==
  t.phys_status = ISOTP_RECEIVE_STATUS_FULL \/ t.func_status = ISOTP_RECEIVE_STATUS_FULL

(***************************************************************************)
(* State after construction: rtt_uds_create initialises every head, the    *)
(* node definitions (RTT_UDS_SERVICE_DEFINE) every node, detached.         *)
(***************************************************************************)
\* RTT_UDS_SEC_SERVICE_DEFINE(name, level, key): the example's instance
\* (level 0x01, key 0xA5A5A5A5) and a second one for level 0x03
SecConfig ==
  [s \in SecInsts |->
     IF s = "security_service"
       THEN [supported_level |-> 1, secret_key |-> << 42405, 42405 >>, current_seed |-> U32Zero]
       ELSE [supported_level |-> 3, secret_key |-> << 23130, 3855 >>, current_seed |-> U32Zero]]

\* RTT_UDS_FILE_SERVICE_DEFINE(name): fd = -1, mode = FILE_MODE_IDLE, the rest zero.
\* moved is history: the payload bytes the complete writes put into the file, or
\* the reads took from it, since the RequestFileTransfer.
FileConfig ==
  [fd |-> -1, mode |-> FILE_MODE_IDLE, total_size |-> 0, current_pos |-> 0,
   current_crc |-> U32Zero, current_path |-> "", moved |-> << >>]

\* no descriptor is open, no file exists
InitOs == [fds |-> [fd \in Fds |-> ClosedFd], fs |-> [p \in Paths |-> NoFile]]

InitSrvState ==
  [sec |-> SecConfig, securityLevel |-> 0, sessionType |-> UDS_LEV_DS_DS,
   console |-> ConsoleConfig(FALSE, FALSE),
   is_overridden |-> [n \in IoNodes |-> 0],
   file |-> FileConfig, os |-> InitOs, io_calls |-> << >>, resp |-> << >>]

NoArgs ==
  [level |-> 0, key |-> << >>, dataId |-> 0, ioCtrlParam |-> "none",
   modeOfOperation |-> "none", filePath |-> "", filePathLen |-> 0,
   fileSizeUnCompressed |-> 0, data |-> << >>, maxRespLen |-> 0,
   type |-> 0, ctrlType |-> 0, id |-> 0, len |-> 0]

NoDispatch ==
  [evt |-> "none", args |-> NoArgs, chain |-> << >>, invoked |-> << >>,
   results |-> << >>, ret |-> "none", pre |-> InitSrvState, post |-> InitSrvState]

HasDispatch == disp.evt # "none"

\* the inputs of a dispatch: what the application handlers return, the value of
\* rt_tick_get(), what the IO callbacks return, whether open, stat and rt_malloc
\* succeed, how much write and read transfer, whether args->copyResponse is set
NoOracle ==
  [user |-> [n \in {} |-> UDS_PositiveResponse], tick |-> U32Zero,
   io |-> [n \in IoNodes |-> UDS_PositiveResponse],
   open_ok |-> TRUE, stat_ok |-> TRUE, malloc_ok |-> TRUE, rw |-> "full",
   has_copy |-> TRUE, vcon_found |-> TRUE, writes |-> << >>]

UserPrios == { RTT_UDS_PRIO_HIGH, RTT_UDS_PRIO_NORMAL }

InitLists ==
  /\ list_next = [c \in Cells |-> c]
  /\ list_prev = [c \in Cells |-> c]

\* an application node is defined with some priority; the first node of the pool
\* may be defined without a handler (handler = NULL), which the dispatcher skips
UserNodeDefs(n) ==
  [name : {n},
   event : {UDS_EVT_WriteDataByIdent},
   priority : UserPrios,
   context : {"NULL"},
   handler : IF n = UserNodePool[1] THEN {"user", "NULL"} ELSE {"user"}]

\* the nodes inside a service object are defined with a name and a context only
\* (RTT_UDS_*_SERVICE_DEFINE); the mount fills in the rest
UnmountedNodeDef(n, ctx) ==
  [name |-> n, event |-> "unset", priority |-> 0, context |-> ctx, handler |-> "NULL"]

LogTimeoutNodeDef ==
  [name |-> LogTimeoutNode, event |-> UDS_EVT_SessionTimeout,
   priority |-> RTT_UDS_PRIO_HIGHEST, context |-> "NULL",
   handler |-> "handle_general_log_timeout"]

FixedNodeDef(n) ==
  IF n = LogTimeoutNode THEN LogTimeoutNodeDef
  ELSE IF n \in { IoCtrlNode, IoTimeoutNode } THEN UnmountedNodeDef(n, IoService)
  ELSE IF n \in FileNodes THEN UnmountedNodeDef(n, FileService)
  ELSE IF n = SessionControlNode THEN SessionControlNodeDef
  ELSE IF n = ConsoleNode THEN UnmountedNodeDef(n, ConsoleService)
  ELSE UnmountedNodeDef(n, CHOOSE s \in SecInsts : n \in SecNodes(s))

UserNodeChoices ==
  { u \in [UserNodes -> UNION { UserNodeDefs(n) : n \in UserNodes }] :
      \A n \in UserNodes : u[n] \in UserNodeDefs(n) }

InitUserNodes ==
  node \in { [n \in ServiceNodes |-> IF n \in UserNodes THEN u[n] ELSE FixedNodeDef(n)] :
              u \in UserNodeChoices }

InitServices ==
  /\ sec = InitSrvState.sec
  /\ securityLevel = InitSrvState.securityLevel
  /\ sessionType = InitSrvState.sessionType
  /\ console = InitSrvState.console
  /\ is_overridden = InitSrvState.is_overridden
  /\ file = InitSrvState.file
  /\ os = InitSrvState.os

Init ==
  /\ InitLists
  /\ InitUserNodes
  /\ InitServices
  /\ reg_order = << >>
  /\ disp = NoDispatch
  /\ cli = InitClient
  /\ thr = InitThread

(***************************************************************************)
(* Actions of the dispatch-table specification                             *)
(***************************************************************************)
SeqRemove(s, x) == SelectSeq(s, LAMBDA y : y # x)

Register(n) ==
  LET r == rtt_uds_service_register(Lists, n)
  IN  /\ list_next' = r.L.next
      /\ list_prev' = r.L.prev
      /\ reg_order' = IF r.ret = "RT_EOK" THEN Append(reg_order, n) ELSE reg_order
      /\ disp' = NoDispatch
      /\ UNCHANGED << node, svcVars, cliVars, thrVars >>

Unregister(n) ==
  LET L2 == rtt_uds_service_unregister(Lists, n)
  IN  /\ list_next' = L2.next
      /\ list_prev' = L2.prev
      /\ reg_order' = SeqRemove(reg_order, n)
      /\ disp' = NoDispatch
      /\ UNCHANGED << node, svcVars, cliVars, thrVars >>

UnregisterAll ==
  LET L2 == rtt_uds_service_unregister_all(Lists)
  IN  /\ list_next' = L2.next
      /\ list_prev' = L2.prev
      /\ reg_order' = << >>
      /\ disp' = NoDispatch
      /\ UNCHANGED << node, svcVars, cliVars, thrVars >>

\* what is remembered of a dispatch
DispatchRecord(evt, args, d) ==
  [evt |-> evt, args |-> args,
   chain |-> IF EvtInTable(evt) THEN ChainOf(Lists, evt) ELSE << >>,
   invoked |-> d.invoked, results |-> d.results, ret |-> d.ret,
   pre |-> SrvState, post |-> d.st]

Dispatch(evt, orc) ==
  /\ ~HasDispatch
  /\ LET d == server_event_dispatcher(Lists, evt, NoArgs, orc, SrvState)
     IN  /\ disp' = DispatchRecord(evt, NoArgs, d)
         /\ UNCHANGED << tableVars, svcVars, cliVars, thrVars >>

\* the core library takes the dispatcher's return value and answers the request
CoreResponds ==
  /\ HasDispatch
  /\ disp' = NoDispatch
  /\ UNCHANGED << tableVars, svcVars, cliVars, thrVars >>

\* the nodes whose handler a dispatch of evt can reach: only their results matter
HandlersOf(L, evt) ==
  IF EvtInTable(evt)
    THEN { n \in ServiceNodes : \E i \in 1..Len(ChainOf(L, evt)) : ChainOf(L, evt)[i] = n }
    ELSE {}

Next ==
  \/ \E n \in UserNodes : Register(n)
  \/ \E n \in UserNodes : Unregister(n)
  \/ UnregisterAll
  \/ CoreResponds
  \/ \E evt \in UserEvents \cup {EVT_OUT_OF_TABLE} :
       \E u \in [HandlersOf(Lists, evt) -> UserResults] : Dispatch(evt, [NoOracle EXCEPT !.user = u])

Spec == Init /\ [][Next]_vars

(***************************************************************************)
(* The security-access specification: the security instances are mounted   *)
(* and unmounted, seeds are requested, keys are sent, the session times    *)
(* out                                                                     *)
(***************************************************************************)
\* values of rt_tick_get(); the second one is 0x12345678
TickPool == << << 0, 1 >>, << 4660, 22136 >>, << 1, 0 >>, << 65535, 65535 >> >>
Ticks == { TickPool[i] : i \in 1..NumTicks }

\* the security levels a client asks for (odd sub-functions 0x01, 0x03, 0x05)
Levels == { 1, 3, 5 }

\* the keys a client sends: the right key for an outstanding seed, a wrong key
\* of four bytes, and keys of a wrong length
Keys ==
  { U32Bytes(calculate_key(sec[s].current_seed, sec[s].secret_key)) : s \in SecInsts }
    \cup { << 0, 0, 0, 0 >>, << 1, 2, 3 >>, << 1, 2, 3, 4, 5 >>, << >> }

ApplyLists(L) ==
  /\ list_next' = L.next
  /\ list_prev' = L.prev
  /\ node' = L.node

\* the application node definitions play no part in the service specifications
InitServer ==
  /\ InitLists
  /\ node = [n \in ServiceNodes |->
               IF n \in UserNodes
                 THEN [name |-> n, event |-> UDS_EVT_WriteDataByIdent,
                       priority |-> RTT_UDS_PRIO_NORMAL, context |-> "NULL",
                       handler |-> "user"]
                 ELSE FixedNodeDef(n)]
  /\ InitServices
  /\ reg_order = << >>
  /\ disp = NoDispatch
  /\ cli = InitClient
  /\ thr = InitThread

SecMount(svc) ==
  /\ ~SecMounted(Lists, svc)
  /\ ApplyLists(rtt_uds_sec_service_mount(Lists, svc).L)
  /\ reg_order' = reg_order
  /\ disp' = NoDispatch
  /\ UNCHANGED << svcVars, cliVars, thrVars >>

SecUnmount(svc) ==
  /\ SecMounted(Lists, svc)
  /\ ApplyLists(rtt_uds_sec_service_unmount(Lists, svc))
  /\ reg_order' = reg_order
  /\ disp' = NoDispatch
  /\ UNCHANGED << svcVars, cliVars, thrVars >>

LogTimeoutRegister ==
  /\ rt_list_isempty(Lists, LogTimeoutNode)
  /\ ApplyLists(log_timeout_node_register(Lists))
  /\ reg_order' = reg_order
  /\ disp' = NoDispatch
  /\ UNCHANGED << svcVars, cliVars, thrVars >>

\* the state of the services after a dispatch
ApplySrvState(st) ==
  /\ sec' = st.sec
  /\ console' = st.console
  /\ is_overridden' = st.is_overridden
  /\ file' = st.file
  /\ os' = st.os

\* 0x27 with an odd sub-function
RequestSeed(level, tick) ==
  /\ ~HasDispatch
  /\ LET args == [NoArgs EXCEPT !.level = level]
         d == server_event_dispatcher(Lists, UDS_EVT_SecAccessRequestSeed, args,
                                      [NoOracle EXCEPT !.tick = tick], SrvState)
     IN  /\ disp' = DispatchRecord(UDS_EVT_SecAccessRequestSeed, args, d)
         /\ ApplySrvState(d.st)
         /\ UNCHANGED << tableVars, securityLevel, sessionType, cliVars, thrVars >>

\* 0x27 with an even sub-function; on a positive response the core library
\* records the unlocked level
ValidateKey(level, key) ==
  /\ ~HasDispatch
  /\ LET args == [NoArgs EXCEPT !.level = level, !.key = key]
         d == server_event_dispatcher(Lists, UDS_EVT_SecAccessValidateKey, args,
                                      NoOracle, SrvState)
     IN  /\ disp' = DispatchRecord(UDS_EVT_SecAccessValidateKey, args, d)
         /\ ApplySrvState(d.st)
         /\ securityLevel' = IF d.ret = UDS_PositiveResponse THEN level ELSE securityLevel
         /\ UNCHANGED << tableVars, sessionType, cliVars, thrVars >>

\* the core library falls back to the default session and emits SessionTimeout
SessionTimeout(orc) ==
  /\ ~HasDispatch
  /\ LET d == server_event_dispatcher(Lists, UDS_EVT_SessionTimeout, NoArgs,
                                      orc, SrvState)
     IN  /\ disp' = DispatchRecord(UDS_EVT_SessionTimeout, NoArgs, d)
         /\ ApplySrvState(d.st)
         /\ securityLevel' \in { securityLevel, 0 }
         /\ sessionType' = UDS_LEV_DS_DS
         /\ UNCHANGED << tableVars, cliVars, thrVars >>


(***************************************************************************)
(* The IO-control specification: the IO service is mounted and unmounted,  *)
(* IO nodes are registered and unregistered, IO-control requests are       *)
(* served, the session times out                                           *)
(***************************************************************************)
IoActions ==
  { UDS_IO_ACT_RETURN_CONTROL, UDS_IO_ACT_RESET_TO_DEFAULT, UDS_IO_ACT_FREEZE_CURRENT,
    UDS_IO_ACT_SHORT_TERM_ADJ }

\* what an IO node's callback returns
IoResults == { UDS_PositiveResponse, UDS_NRC_ConditionsNotCorrect, UDS_NRC_RequestOutOfRange }

\* the DIDs a client asks for: those of the IO nodes and one nobody has (0x0200)
RequestDids == { IoDid(n) : n \in IoNodes } \cup { 512 }

IoMount ==
  /\ ~IoMounted(Lists)
  /\ ApplyLists(rtt_uds_io_service_mount(Lists, IoService).L)
  /\ reg_order' = reg_order
  /\ disp' = NoDispatch
  /\ UNCHANGED << svcVars, cliVars, thrVars >>

IoUnmount ==
  /\ IoMounted(Lists)
  /\ ApplyLists(rtt_uds_io_service_unmount(Lists, IoService))
  /\ reg_order' = reg_order
  /\ disp' = NoDispatch
  /\ UNCHANGED << svcVars, cliVars, thrVars >>

IoRegisterNode(n) ==
  LET r == uds_io_register_node(Lists, is_overridden, IoService, n)
  IN  /\ ApplyLists(r.L)
      /\ is_overridden' = r.is_overridden
      /\ reg_order' = reg_order
      /\ disp' = NoDispatch
      /\ UNCHANGED << sec, securityLevel, conVars, file, os, cliVars, thrVars >>

IoUnregisterNode(n) ==
  /\ ApplyLists(uds_io_unregister_node(Lists, IoService, n))
  /\ reg_order' = reg_order
  /\ disp' = NoDispatch
  /\ UNCHANGED << svcVars, cliVars, thrVars >>

\* 0x2F; one callback at most is called, io says what the callbacks return
IOControl(did, action, io) ==
  /\ ~HasDispatch
  /\ LET args == [NoArgs EXCEPT !.dataId = did, !.ioCtrlParam = action]
         d == server_event_dispatcher(Lists, UDS_EVT_IOControl, args,
                                      [NoOracle EXCEPT !.io = io], SrvState)
     IN  /\ disp' = DispatchRecord(UDS_EVT_IOControl, args, d)
         /\ ApplySrvState(d.st)
         /\ UNCHANGED << tableVars, securityLevel, sessionType, cliVars, thrVars >>


(***************************************************************************)
(* The file-transfer specification: the file service is mounted and        *)
(* unmounted, files are uploaded and downloaded, the session times out     *)
(***************************************************************************)
\* a path of UDS_FILE_MAX_PATH_LEN characters, which does not fit
LongPath == "/a-path-of-64-characters"
PathLen(p) == IF p = LongPath THEN UDS_FILE_MAX_PATH_LEN ELSE 6

FileModes == { UDS_MOOP_ADDFILE, UDS_MOOP_REPLFILE, UDS_MOOP_RDFILE, "UDS_MOOP_RESUMEFILE" }

\* the payloads of TransferData
Chunks == { << >>, << 49 >>, << 49, 50 >> }

\* the payloads of RequestTransferExit: none, the right CRC, a wrong CRC, too
\* short to be a CRC
ExitData ==
  { << >>, U32Bytes(file.current_crc), U32Bytes(U32Not(file.current_crc)), << 1, 2, 3 >> }

FileMount ==
  /\ ~FileMounted(Lists)
  /\ ApplyLists(rtt_uds_file_service_mount(Lists, FileService).L)
  /\ reg_order' = reg_order
  /\ disp' = NoDispatch
  /\ UNCHANGED << svcVars, cliVars, thrVars >>

FileUnmount ==
  /\ FileMounted(Lists)
  /\ ApplyLists(rtt_uds_file_service_unmount(Lists, FileService))
  /\ reg_order' = reg_order
  /\ disp' = NoDispatch
  /\ UNCHANGED << svcVars, cliVars, thrVars >>

\* 0x38; the outcomes of open() and stat() vary where the handler calls them
RequestFileTransfer(mode, path, size, open_ok, stat_ok) ==
  /\ ~HasDispatch
  /\ (path = LongPath \/ mode \notin { UDS_MOOP_ADDFILE, UDS_MOOP_REPLFILE, UDS_MOOP_RDFILE })
       => open_ok
  /\ (mode # UDS_MOOP_RDFILE \/ ~open_ok) => stat_ok
  /\ LET args == [NoArgs EXCEPT !.modeOfOperation = mode, !.filePath = path,
                                !.filePathLen = PathLen(path),
                                !.fileSizeUnCompressed = size]
         d == server_event_dispatcher(Lists, UDS_EVT_RequestFileTransfer, args,
                                      [NoOracle EXCEPT !.open_ok = open_ok,
                                                       !.stat_ok = stat_ok], SrvState)
     IN  /\ disp' = DispatchRecord(UDS_EVT_RequestFileTransfer, args, d)
         /\ ApplySrvState(d.st)
         /\ UNCHANGED << tableVars, securityLevel, sessionType, cliVars, thrVars >>

\* 0x36; uploads stop at MaxFileLen bytes.  Only the inputs the handler looks at
\* in the mode of the session vary: the payload and the outcome of write() in
\* Writing, the room of the response and the outcomes of rt_malloc and read() in
\* Reading.
TransferData(data, maxRespLen, rw, malloc_ok) ==
  /\ ~HasDispatch
  /\ file.fd \in Fds => os.fds[file.fd].pos + Len(data) <= MaxFileLen
  /\ file.mode # FILE_MODE_WRITING => data = << >>
  /\ file.mode # FILE_MODE_READING => (malloc_ok /\ maxRespLen = MaxFileLen)
  /\ file.mode = FILE_MODE_IDLE => rw = "full"
  /\ LET args == [NoArgs EXCEPT !.data = data, !.maxRespLen = maxRespLen]
         d == server_event_dispatcher(Lists, UDS_EVT_TransferData, args,
                                      [NoOracle EXCEPT !.rw = rw, !.malloc_ok = malloc_ok],
                                      SrvState)
     IN  /\ disp' = DispatchRecord(UDS_EVT_TransferData, args, d)
         /\ ApplySrvState(d.st)
         /\ UNCHANGED << tableVars, securityLevel, sessionType, cliVars, thrVars >>

\* 0x37
RequestTransferExit(data, has_copy) ==
  /\ ~HasDispatch
  /\ LET args == [NoArgs EXCEPT !.data = data]
         d == server_event_dispatcher(Lists, UDS_EVT_RequestTransferExit, args,
                                      [NoOracle EXCEPT !.has_copy = has_copy], SrvState)
     IN  /\ disp' = DispatchRecord(UDS_EVT_RequestTransferExit, args, d)
         /\ ApplySrvState(d.st)
         /\ UNCHANGED << tableVars, securityLevel, sessionType, cliVars, thrVars >>

NextFile ==
  \/ FileMount
  \/ FileUnmount
  \/ LogTimeoutRegister
  \/ \E mode \in FileModes, path \in Paths \cup { LongPath }, size \in { MaxFileLen },
        open_ok \in BOOLEAN, stat_ok \in BOOLEAN :
       RequestFileTransfer(mode, path, size, open_ok, stat_ok)
  \/ \E data \in Chunks, maxRespLen \in 1..MaxFileLen, rw \in { "full", "short", "fail" },
        malloc_ok \in BOOLEAN :
       TransferData(data, maxRespLen, rw, malloc_ok)
  \/ \E data \in ExitData, has_copy \in BOOLEAN : RequestTransferExit(data, has_copy)
  \/ SessionTimeout(NoOracle)
  \/ CoreResponds

SpecFile == InitServer /\ [][NextFile]_vars

\* in the security-access and IO-control specifications the other services may
\* be mounted too: their timeout handlers share the session-timeout chain
NextSec ==
  \/ \E svc \in SecInsts : SecMount(svc)
  \/ \E svc \in SecInsts : SecUnmount(svc)
  \/ LogTimeoutRegister
  \/ IoMount
  \/ FileMount
  \/ \E level \in Levels, tick \in Ticks : RequestSeed(level, tick)
  \/ \E level \in Levels, key \in Keys : ValidateKey(level, key)
  \/ SessionTimeout(NoOracle)
  \/ CoreResponds

SpecSec == InitServer /\ [][NextSec]_vars

NextIo ==
  \/ IoMount
  \/ IoUnmount
  \/ LogTimeoutRegister
  \/ \E svc \in SecInsts : SecMount(svc)
  \/ FileMount
  \/ \E n \in IoNodes : IoRegisterNode(n)
  \/ \E n \in IoNodes : IoUnregisterNode(n)
  \/ \E did \in RequestDids, action \in IoActions, res \in IoResults :
       IOControl(did, action, [n \in IoNodes |-> res])
  \/ \E io \in [IoNodes -> IoResults] : SessionTimeout([NoOracle EXCEPT !.io = io])
  \/ CoreResponds

SpecIo == InitServer /\ [][NextIo]_vars

(***************************************************************************)
(* The client specification: the shell loop of client_shell_loop takes the *)
(* user's commands (transactions, console commands, uploads, downloads),   *)
(* polls the stack and sends the heartbeat; the client core and the        *)
(* transport answer as they like.                                          *)
(***************************************************************************)
srvVars == << tableVars, svcVars, disp >>

\* the client as a step finds it: what is remembered of the last transaction and
\* of the last send is kept for one step only
Cur == [cli EXCEPT !.txn = NoTxn, !.prev_at_send = "none", !.hb = NoHb]

\* g_heartbeat_fail_count is counted up to MaxFailCount, the calls of the
\* callback up to MaxCbCalls
CliStep(c) ==
  /\ c.g_heartbeat_fail_count <= MaxFailCount
  /\ c.cb_calls <= MaxCbCalls
  /\ cli' = [c EXCEPT !.line.transmitted =
                        @ \/ (c.line.kind # "none" /\ c.outstanding > cli.outstanding)]
  /\ UNCHANGED << srvVars, thrVars >>

TxnRecord(c, kind, send_ok, timed_out, ok) ==
  [kind |-> kind, send_ok |-> send_ok, responded |-> c.got_resp,
   timed_out |-> timed_out, nrc |-> c.g_last_nrc, ok |-> ok]

\* the end of the command dispatch of client_shell_loop: free(line) and the
\* reset of the heartbeat timer
LineDone(c) == [c EXCEPT !.pc = "poll", !.cmd = "none", !.hb_due = FALSE]

\* client_send_console_command(line) is entered
ConsoleEnter(c) ==
  [c EXCEPT !.pc = "console_idle", !.cmd = "console", !.retry = CONSOLE_IDLE_RETRIES,
            !.line.forwarded = TRUE]

\* int res = cmd_execute_line(line_copy); if (res == -1)
\* client_send_console_command(line): res is what the local handler returned
ShellAfterCommand(c, res) ==
  IF res = -1 THEN ConsoleEnter(c) ELSE LineDone(c)

\* the command handler goes on with the value a transaction returned; the value
\* it returns itself goes to the shell, the value of client_send_console_command
\* is dropped
CommandContinue(c, ret) ==
  CASE c.cmd = "upload_req" /\ ret = 0 -> [c EXCEPT !.pc = "block_send", !.cmd = "upload"]
    [] c.cmd = "download_req" /\ ret = 0 ->
         [c EXCEPT !.pc = "block_send", !.cmd = "download", !.blocks = 1]
    [] c.cmd = "console" -> LineDone(c)
    [] OTHER -> ShellAfterCommand(c, ret)

\* uds_wait_transaction_result returns
WaitDone(c, send_err, timed_out) ==
  LET ret == uds_wait_transaction_result(send_err, timed_out, c.g_last_nrc)
  IN  CommandContinue(
        [c EXCEPT !.txn = TxnRecord(c, "wait", send_err = UDS_OK, timed_out, ret = 0)],
        ret)

\* uds_wait_transaction_result is entered with the value of the send call
WaitEnter(c, send_err) ==
  IF send_err # UDS_OK
    THEN WaitDone(c, send_err, FALSE)
    ELSE IF c.g_response_received
      THEN WaitDone(c, send_err, FALSE)
      ELSE [c EXCEPT !.pc = "wait"]

\* UDS_TRANSACTION(send_call, msg)
UDS_TRANSACTION(c, cmd, tp_ok) ==
  LET s == UDSClientSend(uds_prepare_request([c EXCEPT !.cmd = cmd]), FALSE, tp_ok)
  IN  WaitEnter(s.c, s.err)

\* one turn of the loop of uds_wait_transaction_result
WaitIteration(c, tp_err, step, timeout) ==
  LET c1 == uds_poll(c, tp_err, step)
  IN  IF timeout
        THEN WaitDone(c1, UDS_OK, TRUE)
        ELSE IF c1.g_response_received
          THEN WaitDone(c1, UDS_OK, FALSE)
          ELSE c1

\* handle_upload and handle_download after the wait loop of a block: the NRC check
BlockCheck(c, timed_out, eof) ==
  LET c1 == [c EXCEPT !.txn = TxnRecord(c, "block", c.blk_send_ok, timed_out,
                                        c.g_last_nrc = 0),
                      !.blk_send_ok = FALSE]
  IN  IF c.g_last_nrc # 0
        THEN ShellAfterCommand(c1, -1)
        ELSE [c1 EXCEPT !.pc = "block_send",
                        !.blocks = IF c.cmd = "upload" THEN @ - 1
                                   ELSE IF eof THEN 0 ELSE 1]

\* the head of the transfer loop: the next TransferData block, or
\* RequestTransferExit after the last
BlockSend(c, tp_ok) ==
  IF c.blocks = 0
    THEN UDS_TRANSACTION(c, IF c.cmd = "upload" THEN "upload_exit" ELSE "download_exit", tp_ok)
    ELSE LET s == UDSClientSend(uds_prepare_request(c), FALSE, tp_ok)
         IN  [s.c EXCEPT !.pc = "block_wait", !.blk_send_ok = (s.err = UDS_OK)]

\* one turn of while (client->state != 0) { uds_poll(); if (...) break; }
BlockWait(c, tp_err, step, timeout, eof) ==
  IF c.state = STATE_IDLE
    THEN BlockCheck(c, FALSE, eof)
    ELSE LET c1 == uds_poll(c, tp_err, step)
         IN  IF timeout THEN BlockCheck(c1, TRUE, eof) ELSE c1

\* client_send_console_command: one turn of the wait for an idle client, then
\* the send and the wait for the result
client_send_console_command(c, tp_err, step, tp_ok) ==
  IF c.state # STATE_IDLE /\ c.retry > 0
    THEN [uds_poll(c, tp_err, step) EXCEPT !.retry = c.retry - 1]
    ELSE IF c.state # STATE_IDLE
      THEN LineDone([c EXCEPT !.retry = 0])
      ELSE LET c0 == uds_prepare_request([c EXCEPT !.retry = 0])
               s == UDSClientSend(c0, FALSE, tp_ok)
           IN  IF s.err # UDS_OK
                 THEN LineDone([s.c EXCEPT !.txn = TxnRecord(s.c, "send", FALSE, FALSE, FALSE)])
                 ELSE WaitEnter(s.c, UDS_OK)

\* step 1 of the loop: the forced exit
ShellExit ==
  /\ cli.pc = "top"
  /\ cli.g_shell_force_exit # 0
  /\ CliStep([Cur EXCEPT !.pc = "exit", !.exit_code = SHELL_EXIT_TIMEOUT])

\* the line "exit", Ctrl+C or Ctrl+D
ShellUserQuit ==
  /\ cli.pc = "top"
  /\ cli.g_shell_force_exit = 0
  /\ CliStep([Cur EXCEPT !.pc = "exit", !.exit_code = SHELL_EXIT_USER])

ShellNoInput ==
  /\ cli.pc = "top"
  /\ cli.g_shell_force_exit = 0
  /\ CliStep([Cur EXCEPT !.pc = "poll"])

\* a line has been read: Cur with what is known of its first word
ReadLine(kind) == [Cur EXCEPT !.line = [NoLine EXCEPT !.kind = kind]]

\* a command whose handler runs one UDS_TRANSACTION (session, reset, security, IO, ...)
ShellTransaction(tp_ok) ==
  /\ cli.pc = "top"
  /\ cli.g_shell_force_exit = 0
  /\ CliStep(UDS_TRANSACTION(ReadLine("local"), "txn", tp_ok))

\* a registered command whose handler returns -1 on its arguments before it
\* sends anything: `cc 04` without a node id (handle_comm_ctrl), `auth` with an
\* even level (client_perform_security)
ShellInvalidArgs ==
  /\ cli.pc = "top"
  /\ cli.g_shell_force_exit = 0
  /\ CliStep(CommandContinue([ReadLine("local_invalid") EXCEPT !.cmd = "invalid"], -1))

\* a line whose first word is no registered command: cmd_execute_line returns -1
ShellConsole ==
  /\ cli.pc = "top"
  /\ cli.g_shell_force_exit = 0
  /\ CliStep(ShellAfterCommand(ReadLine("unknown"), -1))

\* strdup(line) returns NULL: the line goes to the remote console as it is
ShellStrdupFails(kind) ==
  /\ cli.pc = "top"
  /\ cli.g_shell_force_exit = 0
  /\ CliStep(ConsoleEnter(ReadLine(kind)))

ConsoleStep(tp_err, step, tp_ok) ==
  /\ cli.pc = "console_idle"
  /\ CliStep(client_send_console_command(Cur, tp_err, step, tp_ok))

\* handle_upload of a file of nblocks blocks
ShellUpload(nblocks, tp_ok) ==
  /\ cli.pc = "top"
  /\ cli.g_shell_force_exit = 0
  /\ CliStep(UDS_TRANSACTION([ReadLine("local") EXCEPT !.blocks = nblocks], "upload_req", tp_ok))

ShellDownload(tp_ok) ==
  /\ cli.pc = "top"
  /\ cli.g_shell_force_exit = 0
  /\ CliStep(UDS_TRANSACTION(ReadLine("local"), "download_req", tp_ok))

WaitStep(tp_err, step, timeout) ==
  /\ cli.pc = "wait"
  /\ CliStep(WaitIteration(Cur, tp_err, step, timeout))

BlockSendStep(tp_ok) ==
  /\ cli.pc = "block_send"
  /\ CliStep(BlockSend(Cur, tp_ok))

BlockWaitStep(tp_err, step, timeout, eof) ==
  /\ cli.pc = "block_wait"
  /\ CliStep(BlockWait(Cur, tp_err, step, timeout, eof))

\* step 4 of the loop
ShellPoll(tp_err, step) ==
  /\ cli.pc = "poll"
  /\ CliStep([uds_poll(Cur, tp_err, step) EXCEPT !.pc = "hb", !.line = NoLine])

\* step 5 of the loop, the heartbeat interval has elapsed (now, or at an earlier
\* turn with the timer not reset since); the timer is reset unless the heartbeat
\* found the client busy
ShellHeartbeat(tp_ok) ==
  /\ cli.pc = "hb"
  /\ LET r == uds_send_heartbeat_safe(Cur, tp_ok)
     IN  CliStep([r.c EXCEPT !.pc = "top",
                             !.hb_due = ~(r.ret = 0 \/ r.ret = -2),
                             !.hb = [tried |-> TRUE, ret |-> r.ret,
                                     pre_count |-> cli.g_heartbeat_fail_count,
                                     pre_out |-> cli.outstanding,
                                     pre_state |-> cli.state]])

\* step 5 of the loop, the heartbeat is not due
ShellNoHeartbeat ==
  /\ cli.pc = "hb"
  /\ ~cli.hb_due
  /\ CliStep([Cur EXCEPT !.pc = "top"])

\* main: the shell returned SHELL_EXIT_TIMEOUT and the user asks to reconnect
Reconnect ==
  /\ cli.pc = "exit"
  /\ cli.exit_code = SHELL_EXIT_TIMEOUT
  /\ CliStep(uds_context_init(Cur))

NextClient ==
  \/ ShellExit
  \/ ShellUserQuit
  \/ ShellNoInput
  \/ \E tp_ok \in BOOLEAN : ShellTransaction(tp_ok)
  \/ ShellInvalidArgs
  \/ ShellConsole
  \/ \E kind \in { "local", "unknown" } : ShellStrdupFails(kind)
  \/ \E tp_err \in BOOLEAN, tp_ok \in BOOLEAN :
       \E step \in CoreSteps(cli, tp_err) : ConsoleStep(tp_err, step, tp_ok)
  \/ \E nblocks \in 0..NumBlocks, tp_ok \in BOOLEAN : ShellUpload(nblocks, tp_ok)
  \/ \E tp_ok \in BOOLEAN : ShellDownload(tp_ok)
  \/ \E tp_err \in BOOLEAN, timeout \in BOOLEAN :
       \E step \in CoreSteps(cli, tp_err) : WaitStep(tp_err, step, timeout)
  \/ \E tp_ok \in BOOLEAN : BlockSendStep(tp_ok)
  \/ \E tp_err \in BOOLEAN, timeout \in BOOLEAN, eof \in BOOLEAN :
       \E step \in CoreSteps(cli, tp_err) : BlockWaitStep(tp_err, step, timeout, eof)
  \/ \E tp_err \in BOOLEAN : \E step \in CoreSteps(cli, tp_err) : ShellPoll(tp_err, step)
  \/ \E tp_ok \in BOOLEAN : ShellHeartbeat(tp_ok)
  \/ ShellNoHeartbeat
  \/ Reconnect

SpecClient == InitServer /\ [][NextClient]_vars

(***************************************************************************)
(* The authentication specification: the client's `auth` command           *)
(* (client_perform_security) talks to the security service of the server;  *)
(* the instances are mounted and unmounted and the session times out.      *)
(***************************************************************************)
\* the levels the user asks for
AuthLevels == Levels \cup { 2 }

\* the response message to a SecurityAccess request: the positive response
\* carries the sub-function and what the handler copied, the negative one the NRC
SecurityResponse(subFunction, d) ==
  IF d.ret = UDS_PositiveResponse
    THEN << SID_SECURITY_ACCESS_RESPONSE, subFunction >> \o d.st.resp
    ELSE << 127, 39 >>

AuthStep(a) ==
  /\ cli' = [cli EXCEPT !.auth = a]
  /\ disp' = NoDispatch
  /\ UNCHANGED << tableVars, conVars, is_overridden, file, os, thrVars >>

\* `auth <level>` with an even level returns before any request
AuthInvalidLevel(level) ==
  /\ ~HasDispatch
  /\ cli.auth.pc = "idle"
  /\ level % 2 = 0
  /\ AuthStep([NoAuth EXCEPT !.level = level, !.ret = -1, !.returned = TRUE,
                             !.unlocked_before = (securityLevel = level)])
  /\ UNCHANGED << sec, securityLevel >>

\* the first transaction of client_perform_security and what follows it up to
\* the return or the second transaction.  delivered: the request reaches the
\* server and its response the client within the 2000 ms; no_seed: the server is
\* one that answers an unlocked level with the two bytes (SID, level) alone.
AuthRequestSeed(level, tick, delivered, no_seed) ==
  /\ ~HasDispatch
  /\ cli.auth.pc = "idle"
  /\ level % 2 # 0
  /\ LET args == [NoArgs EXCEPT !.level = level]
         d == server_event_dispatcher(Lists, UDS_EVT_SecAccessRequestSeed, args,
                                      [NoOracle EXCEPT !.tick = tick], SrvState)
         short == no_seed /\ securityLevel = level
         recv == IF ~delivered THEN << >>
                 ELSE IF short THEN << SID_SECURITY_ACCESS_RESPONSE, level >>
                 ELSE SecurityResponse(level, d)
         wait_ret == IF delivered /\ (short \/ d.ret = UDS_PositiveResponse) THEN 0 ELSE -1
         r == client_perform_security_seed(level, wait_ret, recv)
     IN  /\ sec' = IF delivered /\ ~short THEN d.st.sec ELSE sec
         /\ AuthStep([NoAuth EXCEPT !.pc = IF r.send_key THEN "key" ELSE "idle",
                                    !.level = level, !.recv = recv, !.key = r.key,
                                    !.ret = r.ret, !.returned = ~r.send_key,
                                    !.unlocked_before = (securityLevel = level)])
         /\ UNCHANGED securityLevel

\* the second transaction of client_perform_security: 0x27 <level + 1> <key>;
\* on a positive response the core library of the server records the level
AuthSendKey(delivered) ==
  /\ ~HasDispatch
  /\ cli.auth.pc = "key"
  /\ LET args == [NoArgs EXCEPT !.level = cli.auth.level, !.key = cli.auth.key]
         d == server_event_dispatcher(Lists, UDS_EVT_SecAccessValidateKey, args,
                                      NoOracle, SrvState)
         ok == delivered /\ d.ret = UDS_PositiveResponse
     IN  /\ sec' = IF delivered THEN d.st.sec ELSE sec
         /\ securityLevel' = IF ok THEN cli.auth.level ELSE securityLevel
         /\ AuthStep([cli.auth EXCEPT !.pc = "idle", !.key_sent = TRUE,
                                      !.ret = IF ok THEN 0 ELSE -1, !.returned = TRUE])

NextAuth ==
  \/ \E svc \in SecInsts : SecMount(svc)
  \/ \E svc \in SecInsts : SecUnmount(svc)
  \/ SessionTimeout(NoOracle)
  \/ CoreResponds
  \/ \E level \in AuthLevels : AuthInvalidLevel(level)
  \/ \E level \in AuthLevels, tick \in Ticks, delivered \in BOOLEAN, no_seed \in BOOLEAN :
       AuthRequestSeed(level, tick, delivered, no_seed)
  \/ \E delivered \in BOOLEAN : AuthSendKey(delivered)

SpecAuth == InitServer /\ [][NextAuth]_vars

(***************************************************************************)
(* The file-transfer specification: the client's upload and download       *)
(* commands (handle_upload, handle_download) run against the file service  *)
(* of the server, one transaction a step.  A transaction either reaches    *)
(* the server and brings its response back, or goes without a response.    *)
(***************************************************************************)
\* the local files the user uploads: the first k bytes of "1212..."
LocalFiles == { [i \in 1..k |-> 49 + ((i + 1) % 2)] : k \in 0..MaxFileLen }

\* the values of UDS_ISOTP_MTU the server may be built with: the block lengths
\* 2 (below the client's minimum of 3), 3, 4, ...
IsoTpMtus == 4..(MaxFileLen + 4)

\* MIN(UDS_ISOTP_MTU - 2, UDS_FILE_CHUNK_SIZE), the block length handle_file_request
\* puts into the response
MaxNumberOfBlockLength(mtu) == Min(mtu - 2, UDS_FILE_CHUNK_SIZE)

\* the file name the user gives to both commands
XferPaths == { "/a.bin" }

\* downloads stop at MaxFileLen bytes
XferStep(x) ==
  /\ x.received_bytes <= MaxFileLen
  /\ cli' = [cli EXCEPT !.xfer = x]
  /\ disp' = NoDispatch
  /\ UNCHANGED << tableVars, sec, securityLevel, conVars, is_overridden, thrVars >>

\* the server has handled the request (d), or has not seen it
ServerHandled(delivered, d) ==
  /\ file' = IF delivered THEN d.st.file ELSE file
  /\ os' = IF delivered THEN d.st.os ELSE os

\* a command starts: the history of the last one is dropped
XferBegin(x, cmd, p) ==
  [x EXCEPT !.cmd = cmd, !.path = p, !.ret = 0, !.returned = FALSE,
            !.cause = "none", !.write_failed = FALSE,
            !.payload_len = 0, !.sent_bytes = 0, !.crc = U32Zero, !.total_size = 0,
            !.received_bytes = 0, !.last_data = << >>]

\* the command returns: its locals are gone, the CRC it has logged stays
XferReturn(x, ret, cause) ==
  [x EXCEPT !.pc = "idle", !.ret = ret, !.returned = TRUE, !.cause = cause,
            !.crc = IF ret = 0 THEN @ ELSE U32Zero,
            !.payload_len = 0, !.sent_bytes = 0, !.total_size = 0,
            !.received_bytes = 0, !.last_data = << >>]

\* the user puts the bytes B under the local name p
LocalWrite(p, B) ==
  /\ cli.xfer.pc = "idle"
  /\ XferStep([XferBegin(cli.xfer, "none", "none") EXCEPT
                 !.local[p] = [exists |-> TRUE, data |-> B]])
  /\ UNCHANGED << file, os >>

\* handle_upload from the return of the first transaction (0x38 AddFile) on; ok:
\* UDS_TRANSACTION returned 0
handle_upload_request(x, p, ok, maxNumberOfBlockLength) ==
  IF ~x.local[p].exists THEN XferReturn(x, -1, "fopen")
  ELSE IF ~ok THEN XferReturn(x, -1, "request")
  ELSE [x EXCEPT !.pc = "up_data", !.payload_len = UploadPayloadLen(maxNumberOfBlockLength)]

\* fread(buffer, 1, payload_len, fp)
UploadBuffer(x) ==
  SubSeq(x.local[x.path].data, x.sent_bytes + 1,
         Min(x.sent_bytes + x.payload_len, Len(x.local[x.path].data)))

\* one turn of the transfer loop of handle_upload after the wait for
\* client->state: the NRC check
handle_upload_block(x, delivered, ret) ==
  LET x1 == [x EXCEPT !.crc = crc32_calc(x.crc, UploadBuffer(x))]
  IN  IF delivered /\ ret # UDS_PositiveResponse
        THEN XferReturn(x1, -1, "block")
        ELSE [x1 EXCEPT !.sent_bytes = @ + Len(UploadBuffer(x))]

\* handle_upload after 0x37
handle_upload_exit(x, ok) ==
  IF ok
    THEN XferReturn([x EXCEPT !.uploaded[x.path] =
                                [ok |-> TRUE, B |-> x.local[x.path].data]],
                    0, "none")
    ELSE XferReturn(x, -1, "exit")

\* handle_download from fopen(filename, "wb") to the transfer loop
handle_download_request(x, p, local_ok, ok, fileSizeUncompressed) ==
  IF ~local_ok THEN XferReturn(x, -1, "fopen")
  ELSE IF ~ok
    THEN XferReturn([x EXCEPT !.local[p] = NoFile], -1, "request")
  ELSE [x EXCEPT !.local[p] = [exists |-> TRUE, data |-> << >>],
                 !.pc = "down_data", !.total_size = fileSizeUncompressed]

\* one turn of the transfer loop of handle_download after the wait for
\* client->state: the NRC check, fwrite and the CRC, the test for the end; data
\* is recv_buf[2 .. recv_size - 1]
handle_download_block(x, delivered, ret, data, fwrite_ok) ==
  LET received == x.received_bytes + Len(data)
      eof == IF Len(data) > 0 THEN x.total_size > 0 /\ received >= x.total_size ELSE TRUE
  IN  IF delivered /\ ret # UDS_PositiveResponse
        THEN XferReturn(x, -1, "block")
        ELSE [x EXCEPT !.local[x.path].data = IF fwrite_ok THEN @ \o data ELSE @,
                       !.write_failed = @ \/ (Len(data) > 0 /\ ~fwrite_ok),
                       !.crc = crc32_calc(x.crc, data),
                       !.received_bytes = received,
                       !.last_data = data,
                       !.pc = IF eof THEN "down_exit" ELSE "down_data"]

\* handle_download after 0x37
handle_download_exit(x, ok) ==
  IF ok THEN XferReturn(x, 0, "none") ELSE XferReturn(x, -1, "exit")

\* the client's step x against the server's handling d of the request
XferTransaction(delivered, d, x) ==
  /\ ServerHandled(delivered, d)
  /\ XferStep(x)

\* `sy <p>`: fopen, the file size, 0x38 AddFile
UploadRequest(p, delivered, open_ok, mtu) ==
  /\ cli.xfer.pc = "idle"
  /\ ~(cli.xfer.local[p].exists /\ delivered) => (open_ok /\ mtu = MaxFileLen + 4)
  /\ LET x == XferBegin(cli.xfer, "upload", p)
         sent == x.local[p].exists /\ delivered
         args == [NoArgs EXCEPT !.modeOfOperation = UDS_MOOP_ADDFILE, !.filePath = p,
                                !.filePathLen = PathLen(p),
                                !.fileSizeUnCompressed = Len(x.local[p].data)]
         d == server_event_dispatcher(Lists, UDS_EVT_RequestFileTransfer, args,
                                      [NoOracle EXCEPT !.open_ok = open_ok], SrvState)
     IN  XferTransaction(sent, d,
           handle_upload_request([x EXCEPT !.uploaded[p] = IF sent THEN NoUpload ELSE @],
                                 p, delivered /\ d.ret = UDS_PositiveResponse,
                                 MaxNumberOfBlockLength(mtu)))

\* a block of the upload: fread, the CRC, 0x36 with the block
UploadBlock(delivered, rw) ==
  /\ cli.xfer.pc = "up_data"
  /\ ~delivered => rw = "full"
  /\ cli.xfer.sent_bytes < Len(cli.xfer.local[cli.xfer.path].data)
  /\ LET args == [NoArgs EXCEPT !.data = UploadBuffer(cli.xfer)]
         d == server_event_dispatcher(Lists, UDS_EVT_TransferData, args,
                                      [NoOracle EXCEPT !.rw = rw], SrvState)
     IN  XferTransaction(delivered, d, handle_upload_block(cli.xfer, delivered, d.ret))

\* the end of the upload: fclose and 0x37 with the CRC
UploadExit(delivered) ==
  /\ cli.xfer.pc = "up_data"
  /\ cli.xfer.sent_bytes >= Len(cli.xfer.local[cli.xfer.path].data)
  /\ LET args == [NoArgs EXCEPT !.data = U32Bytes(cli.xfer.crc)]
         d == server_event_dispatcher(Lists, UDS_EVT_RequestTransferExit, args,
                                      NoOracle, SrvState)
     IN  XferTransaction(delivered, d,
           handle_upload_exit(cli.xfer, delivered /\ d.ret = UDS_PositiveResponse))

\* `ry <p>`: fopen(filename, "wb"), 0x38 ReadFile.  size_known: the response
\* carries the fileSizeUnCompressed the handler has set.
DownloadRequest(p, local_ok, delivered, open_ok, stat_ok, size_known) ==
  /\ cli.xfer.pc = "idle"
  /\ ~local_ok => delivered
  /\ ~(local_ok /\ delivered) => open_ok
  /\ ~open_ok => stat_ok
  /\ ~stat_ok => size_known
  /\ LET args == [NoArgs EXCEPT !.modeOfOperation = UDS_MOOP_RDFILE, !.filePath = p,
                                !.filePathLen = PathLen(p)]
         d == server_event_dispatcher(Lists, UDS_EVT_RequestFileTransfer, args,
                                      [NoOracle EXCEPT !.open_ok = open_ok,
                                                       !.stat_ok = stat_ok], SrvState)
     IN  XferTransaction(local_ok /\ delivered, d,
           handle_download_request(XferBegin(cli.xfer, "download", p), p, local_ok,
                                   delivered /\ d.ret = UDS_PositiveResponse,
                                   IF size_known THEN d.st.file.total_size ELSE 0))

\* a block of the download: 0x36 without data.  A block that went without a
\* response finds the receive buffer empty, or (stale) as the response before
\* left it.
DownloadBlock(delivered, stale, maxRespLen, rw, malloc_ok, fwrite_ok) ==
  /\ cli.xfer.pc = "down_data"
  /\ delivered => ~stale
  /\ ~delivered => (maxRespLen = MaxFileLen /\ rw = "full" /\ malloc_ok /\ fwrite_ok)
  /\ (rw = "fail" \/ ~malloc_ok) => (maxRespLen = MaxFileLen /\ fwrite_ok)
  /\ rw = "fail" => malloc_ok
  /\ LET args == [NoArgs EXCEPT !.maxRespLen = maxRespLen]
         d == server_event_dispatcher(Lists, UDS_EVT_TransferData, args,
                                      [NoOracle EXCEPT !.rw = rw, !.malloc_ok = malloc_ok],
                                      SrvState)
     IN  XferTransaction(delivered, d,
           handle_download_block(cli.xfer, delivered, d.ret,
                                 IF delivered THEN d.st.resp
                                 ELSE IF stale THEN cli.xfer.last_data ELSE << >>,
                                 fwrite_ok))

\* the end of the download: fclose and 0x37
DownloadExit(delivered, has_copy) ==
  /\ cli.xfer.pc = "down_exit"
  /\ ~delivered => has_copy
  /\ LET d == server_event_dispatcher(Lists, UDS_EVT_RequestTransferExit, NoArgs,
                                      [NoOracle EXCEPT !.has_copy = has_copy], SrvState)
     IN  XferTransaction(delivered, d,
           handle_download_exit(cli.xfer, delivered /\ d.ret = UDS_PositiveResponse))

NextXfer ==
  \/ FileMount
  \/ \E p \in XferPaths, B \in LocalFiles : LocalWrite(p, B)
  \/ \E p \in XferPaths, delivered \in BOOLEAN, open_ok \in BOOLEAN, mtu \in IsoTpMtus :
       UploadRequest(p, delivered, open_ok, mtu)
  \/ \E delivered \in BOOLEAN, rw \in { "full", "short", "fail" } : UploadBlock(delivered, rw)
  \/ \E delivered \in BOOLEAN : UploadExit(delivered)
  \/ \E p \in XferPaths, local_ok \in BOOLEAN, delivered \in BOOLEAN, open_ok \in BOOLEAN,
        stat_ok \in BOOLEAN, size_known \in BOOLEAN :
       DownloadRequest(p, local_ok, delivered, open_ok, stat_ok, size_known)
  \/ \E delivered \in BOOLEAN, stale \in BOOLEAN, maxRespLen \in 1..MaxFileLen,
        rw \in { "full", "fail" }, malloc_ok \in BOOLEAN, fwrite_ok \in BOOLEAN :
       DownloadBlock(delivered, stale, maxRespLen, rw, malloc_ok, fwrite_ok)
  \/ \E delivered \in BOOLEAN, has_copy \in BOOLEAN : DownloadExit(delivered, has_copy)

SpecXfer == InitServer /\ [][NextXfer]_vars

(***************************************************************************)
(* The consumer-thread specification: the receive callback queues frames,  *)
(* the consumer thread routes them, polls and dispatches node by node,     *)
(* while the thread of the msh command registers and unregisters service   *)
(* nodes (uds_example start / stop) with no lock.                          *)
(***************************************************************************)
ThrStep(t) ==
  /\ thr' = t
  /\ UNCHANGED << srvVars, cliVars >>

\* a step of the consumer thread
ConsumerStep(t) == ThrStep([t EXCEPT !.feed = NoFeed])

\* can_rx_callback / user_can_rx_callback
CanRx(id) ==
  /\ id \in FrameIds
  /\ ThrStep(rtt_uds_feed_can_frame(thr, id))

ThreadRecv(st) ==
  /\ thr.pc = "recv"
  /\ ConsumerStep(ThreadRecvStep(thr, st))

ThreadPoll(phys_timeout, evt) ==
  /\ thr.pc = "poll"
  /\ evt # "none" => RequestReady(thr)
  /\ ConsumerStep(UDSServerPoll(Lists, thr, phys_timeout, evt))

ThreadDispatch(result) ==
  /\ thr.pc = "dispatch"
  /\ ConsumerStep(DispatchNodeStep(Lists, thr, result))

\* the nodes the msh thread registers and unregisters in this specification
ThreadNodes == { UserNodePool[i] : i \in 1..NumThreadNodes }

\* results of the application handlers in this specification
ThreadResults == { RTT_UDS_CONTINUE, UDS_PositiveResponse, UDS_NRC_RequestOutOfRange }

NextThread ==
  \/ \E id \in FrameIds : CanRx(id)
  \/ \E st \in ReceiveStatuses : ThreadRecv(st)
  \/ \E phys_timeout \in BOOLEAN, evt \in {"none", UDS_EVT_WriteDataByIdent} :
       ThreadPoll(phys_timeout, evt)
  \/ \E result \in ThreadResults : ThreadDispatch(result)
  \/ \E n \in ThreadNodes : Register(n)
  \/ \E n \in ThreadNodes : Unregister(n)
  \/ UnregisterAll

SpecThread == InitServer /\ [][NextThread]_vars


(***************************************************************************)
(* Properties of the dispatcher and of the dispatch table                  *)
(***************************************************************************)
NotMine == { UDS_NRC_RequestOutOfRange, UDS_NRC_SubFunctionNotSupported }
Handled == { UDS_PositiveResponse, UDS_NRC_RequestCorrectlyReceived_ResponsePending }
\* the NRCs by which a handler rejects its request
IsRejection(r) == r \notin NotMine \cup { RTT_UDS_CONTINUE, UDS_PositiveResponse }

\* the nodes of the dispatched chain that have a handler, in chain order
ChainHandlers(d) == SelectSeq(d.chain, LAMBDA n : node[n].handler # "NULL")
IsPrefix(s, t) == Len(s) <= Len(t) /\ \A i \in 1..Len(s) : s[i] = t[i]
IndexIn(s, x) == CHOOSE i \in 1..Len(s) : s[i] = x

\* C1: a handler result that is an NRC other than RequestOutOfRange and
\* SubFunctionNotSupported ends the dispatch at that handler: it is the last
\* handler invoked (the handlers invoked are a prefix of the chain) and the NRC
\* is what the dispatcher returns, whatever the earlier handlers returned.
C1_RejectionStopsChain ==
  HasDispatch =>
    /\ IsPrefix(disp.invoked, ChainHandlers(disp))
    /\ \A i \in 1..Len(disp.invoked) :
         IsRejection(disp.results[i]) =>
           i = Len(disp.invoked) /\ disp.ret = disp.results[i]

\* a CONTINUE, then a rejection, with a handler left in the chain that did not run
C1_Witness ==
  /\ HasDispatch
  /\ Len(disp.invoked) = 2
  /\ disp.results = << RTT_UDS_CONTINUE, UDS_NRC_ConditionsNotCorrect >>
  /\ Len(ChainHandlers(disp)) = 3
  /\ disp.ret = UDS_NRC_ConditionsNotCorrect

\* a dispatch no handler stopped: every handler of the chain ran and none of them
\* returned a result that stops
RanToEnd(d) ==
  /\ EvtInTable(d.evt)
  /\ d.invoked = ChainHandlers(d)
  /\ \A i \in 1..Len(d.results) : d.results[i] \in NotMine \cup { RTT_UDS_CONTINUE }

\* C2: a dispatch that reaches the end of the chain (an empty chain included)
\* returns Positive if some handler returned CONTINUE, ServiceNotSupported if not.
C2_EndOfChainResult ==
  (HasDispatch /\ RanToEnd(disp)) =>
    disp.ret = IF \E i \in 1..Len(disp.results) : disp.results[i] = RTT_UDS_CONTINUE
                 THEN UDS_PositiveResponse
                 ELSE UDS_NRC_ServiceNotSupported

\* a CONTINUE followed by two "not mine", to the end of a chain of three
C2_Witness ==
  /\ HasDispatch /\ RanToEnd(disp)
  /\ disp.results = << RTT_UDS_CONTINUE, UDS_NRC_RequestOutOfRange,
                       UDS_NRC_SubFunctionNotSupported >>
  /\ disp.ret = UDS_PositiveResponse

\* C3: after a handler returned RequestOutOfRange or SubFunctionNotSupported the
\* next handler of the chain, if there is one, is invoked; the dispatcher never
\* returns one of these two results of a handler as its own.
C3_NotMineTriesNext ==
  HasDispatch =>
    /\ \A i \in 1..Len(disp.invoked) :
         (disp.results[i] \in NotMine /\ i < Len(ChainHandlers(disp))) =>
           /\ Len(disp.invoked) > i
           /\ disp.invoked[i + 1] = ChainHandlers(disp)[i + 1]
    /\ disp.ret \notin NotMine

\* both "not mine" results, each followed by the next handler
C3_Witness ==
  /\ HasDispatch
  /\ Len(disp.invoked) = 3
  /\ disp.results[1] = UDS_NRC_SubFunctionNotSupported
  /\ disp.results[2] = UDS_NRC_RequestOutOfRange
  /\ disp.ret = UDS_NRC_ServiceNotSupported

\* C4: a handler result Positive or ResponsePending ends the dispatch: it is the
\* last handler invoked and its result is what the dispatcher returns.
C4_HandledStopsChain ==
  HasDispatch =>
    \A i \in 1..Len(disp.invoked) :
      disp.results[i] \in Handled =>
        i = Len(disp.invoked) /\ disp.ret = disp.results[i]

\* ResponsePending from the first handler of a chain of three
C4_Witness ==
  /\ HasDispatch
  /\ Len(ChainHandlers(disp)) = 3
  /\ disp.results = << UDS_NRC_RequestCorrectlyReceived_ResponsePending >>
  /\ disp.ret = UDS_NRC_RequestCorrectlyReceived_ResponsePending

\* C5: of two handlers invoked by one dispatch, the one with the smaller priority
\* number is invoked first, in whatever order the two were registered.
C5_PriorityOrder ==
  HasDispatch =>
    \A i, j \in 1..Len(disp.invoked) :
      node[disp.invoked[i]].priority < node[disp.invoked[j]].priority => i < j

\* the handler invoked first was registered after the one invoked second
C5_Witness ==
  /\ HasDispatch
  /\ Len(disp.invoked) >= 2
  /\ node[disp.invoked[1]].priority < node[disp.invoked[2]].priority
  /\ IndexIn(reg_order, disp.invoked[1]) > IndexIn(reg_order, disp.invoked[2])

\* C6: every chain is sorted by ascending priority, nodes of equal priority in
\* the order of their registration.
C6_ChainsSortedStable ==
  \A evt \in Events :
    LET ch == ChainOf(Lists, evt)
    IN  \A i, j \in 1..Len(ch) :
          i < j =>
            /\ node[ch[i]].priority <= node[ch[j]].priority
            /\ node[ch[i]].priority = node[ch[j]].priority =>
                 IndexIn(reg_order, ch[i]) < IndexIn(reg_order, ch[j])

\* three nodes in a chain, two of one priority, not in the order of registration
C6_Witness ==
  LET ch == ChainOf(Lists, UDS_EVT_WriteDataByIdent)
  IN  /\ Len(ch) = 3
      /\ ch # reg_order
      /\ node[ch[2]].priority = node[ch[3]].priority
      /\ node[ch[1]].priority < node[ch[2]].priority

(***************************************************************************)
(* Properties of the security-access service                               *)
(***************************************************************************)
\* the instances a ValidateKey request was addressed to with a seed outstanding
SeedOutstandingFor(d) ==
  { s \in SecInsts :
      /\ SecMounted(Lists, s)
      /\ d.args.level = d.pre.sec[s].supported_level
      /\ d.pre.sec[s].current_seed # U32Zero }

\* C8: the seed is single-use: after any ValidateKey attempt addressed to an
\* instance's level while its seed is outstanding, whatever the key value, the
\* key length and the outcome, the instance's current_seed is 0
C8_SeedSingleUse ==
  (HasDispatch /\ disp.evt = UDS_EVT_SecAccessValidateKey) =>
    \A s \in SeedOutstandingFor(disp) : sec[s].current_seed = U32Zero

\* C9: after a session-timeout event has been dispatched, current_seed of every
\* mounted security instance is 0
C9_TimeoutClearsSeeds ==
  (HasDispatch /\ disp.evt = UDS_EVT_SessionTimeout) =>
    \A s \in SecInsts : SecMounted(Lists, s) => sec[s].current_seed = U32Zero

\* a timeout dispatched while every instance is mounted and holds a seed
C9_Witness ==
  /\ HasDispatch
  /\ disp.evt = UDS_EVT_SessionTimeout
  /\ \A s \in SecInsts :
       /\ SecMounted(Lists, s)
       /\ disp.pre.sec[s].current_seed # U32Zero
       /\ sec[s].current_seed = U32Zero
  /\ ~rt_list_isempty(Lists, LogTimeoutNode)

(***************************************************************************)
(* Properties of the IO-control service                                    *)
(***************************************************************************)
InSeq(s, x) == \E i \in 1..Len(s) : s[i] = x

\* the callback of n was called with ReturnControl during the dispatch d
GotReturnControl(d, n) ==
  \E i \in 1..Len(d.post.io_calls) :
    d.post.io_calls[i][1] = n /\ d.post.io_calls[i][2] = UDS_IO_ACT_RETURN_CONTROL

\* the callback of n failed a ReturnControl during the dispatch d
FailedReturnControl(d, n) ==
  \E i \in 1..Len(d.post.io_calls) :
    /\ d.post.io_calls[i][1] = n
    /\ d.post.io_calls[i][2] = UDS_IO_ACT_RETURN_CONTROL
    /\ d.post.io_calls[i][3] # UDS_PositiveResponse

SessionOpenBefore(d) ==
  /\ d.pre.file.fd >= 0
  /\ d.pre.file.mode \in { FILE_MODE_WRITING, FILE_MODE_READING }

\* C10: after a RequestTransferExit has been processed while a file session is
\* open, in Writing mode with or without a supplied CRC, matching or not, and in
\* Reading mode, the file is closed and the session is Idle
C10_ExitClosesFile ==
  (/\ HasDispatch
   /\ disp.evt = UDS_EVT_RequestTransferExit
   /\ FileMounted(Lists)
   /\ SessionOpenBefore(disp)) =>
    /\ file.fd = -1
    /\ ~os.fds[disp.pre.file.fd].open
    /\ file.mode = FILE_MODE_IDLE

C12_DisconnectFiresOnce ==
  /\ cli.hb_streak >= MAX_HEARTBEAT_RETRIES => cli.cb_calls = 1
  /\ cli.cb_calls > 0 => cli.fire_count >= MAX_HEARTBEAT_RETRIES

\* C13: the disconnect callback is called only for failures in a row: when it is
\* called, at least MAX_HEARTBEAT_RETRIES failures were counted since the last
\* heartbeat that was sent successfully (failures from before that heartbeat are
\* not added to the ones after it).
C13_ConsecutiveFailuresOnly ==
  cli.cb_calls > 0 => cli.fire_run >= MAX_HEARTBEAT_RETRIES

WaitVerdict(t) ==
  uds_wait_transaction_result(IF t.send_ok THEN UDS_OK ELSE UDS_ERR_TPORT,
                              t.timed_out, t.nrc) = 0

\* C15: uds_wait_transaction_result returns ok exactly when the send succeeded, a
\* response was received before the timeout and the captured NRC is 0; a send
\* error, a timeout and an NRC different from 0 each make it return fail.
C15_WaitResult ==
  cli.txn.kind = "wait" =>
    /\ cli.txn.ok <=>
         (cli.txn.send_ok /\ cli.txn.responded /\ ~cli.txn.timed_out /\ cli.txn.nrc = 0)
    /\ ~cli.txn.send_ok => ~cli.txn.ok
    /\ cli.txn.timed_out => ~cli.txn.ok
    /\ cli.txn.nrc # 0 => ~cli.txn.ok

\* a wait that ended with a negative response: the send was fine, there was no
\* timeout, the NRC was captured
C15_Witness ==
  /\ cli.txn.kind = "wait"
  /\ cli.txn.send_ok
  /\ ~cli.txn.timed_out
  /\ cli.txn.nrc = UDS_NRC_RequestOutOfRange_Word
  /\ ~cli.txn.ok

C17_SingleFunnel ==
  cli.txn.kind # "none" => (cli.txn.ok <=> WaitVerdict(cli.txn))

(***************************************************************************)
(* Claims about the consumer thread of the server                          *)
(***************************************************************************)
\* C18: a functional frame taken from the receive queue while a segmented receive
\* is in progress on the physical link is dropped: it is not passed to the
\* functional link, whose state stays as it was, and the turn of the loop ends
\* without anything else done for it.
C18_FunctionalDroppedWhilePhysicalBusy ==
  (/\ thr.last.id = "func_sa"
   /\ thr.last.pre_phys = ISOTP_RECEIVE_STATUS_INPROGRESS) =>
    /\ thr.last.route = "dropped"
    /\ thr.func_status = thr.last.pre_func
    /\ thr.pc = "recv"
    /\ thr.evt = "none"

\* a functional frame was taken while the physical link was receiving, and dropped
C18_Witness ==
  /\ thr.last.id = "func_sa"
  /\ thr.last.pre_phys = ISOTP_RECEIVE_STATUS_INPROGRESS
  /\ thr.last.route = "dropped"
  /\ thr.phys_status = ISOTP_RECEIVE_STATUS_INPROGRESS

\* C19: the consumer thread never calls rt_mq_recv for the next frame while a
\* frame it took - fed to the physical link, fed to the functional link, dropped
\* or ignored - has not been followed by a call of UDSServerPoll.
C19_PollAfterEveryFrame == ~thr.skipped_poll

\* C20: while the consumer thread is dispatching over a chain, no step modifies
\* the chains of the event table (the table is modified from the consumer thread
\* only, which does not modify it in the middle of a dispatch).
C20_TableOnlyFromConsumer ==
  [][thr.pc = "dispatch" => (list_next' = list_next /\ list_prev' = list_prev)]_vars

\* C21: feeding a frame from the driver callback never blocks (the callback can
\* always run to its end); when the queue is full the new frame is dropped and
\* the failure is reported, the frames queued stay as they were, in the order
\* of their arrival; with room the frame joins the tail.
C21_FeedNeverBlocks ==
  /\ \A id \in FrameIds : ENABLED CanRx(id)
  /\ thr.feed.id # "none" =>
        IF Len(thr.feed.pre_mq) >= MaxQueue
          THEN /\ thr.rx_mq = thr.feed.pre_mq
               /\ thr.feed.ret = RT_EFULL
               /\ thr.feed.logged
          ELSE /\ thr.rx_mq = Append(thr.feed.pre_mq, thr.feed.id)
               /\ thr.feed.ret = RT_EOK
               /\ ~thr.feed.logged

\* a frame has found the queue full, with two different frames waiting
C21_Witness ==
  /\ thr.feed.id # "none"
  /\ Len(thr.feed.pre_mq) >= MaxQueue
  /\ thr.feed.pre_mq[1] # thr.feed.pre_mq[2]
  /\ thr.feed.id # thr.feed.pre_mq[2]
  /\ thr.feed.logged

\* C22: at every point of a file session the running CRC is the CRC-32 (initial
\* value 0, inverted before and after) of the payload bytes written to the file
\* (Writing) or read from it (Reading) since the RequestFileTransfer, in their
\* order; the bytes of a failed or short write are not part of it.  In a
\* Reading session these bytes are the part of the file before the read position.
Crc32Of(bytes) == U32Not(Crc32Bytes(<< 65535, 65535 >>, bytes))

C22_RunningCrc ==
  (file.fd >= 0 /\ file.mode \in { FILE_MODE_WRITING, FILE_MODE_READING }) =>
     /\ file.current_crc = Crc32Of(file.moved)
     /\ file.mode = FILE_MODE_READING =>
           file.moved = SubSeq(os.fs[file.current_path].data, 1, os.fds[file.fd].pos)

\* a chunk was written after a short write, which left a byte in the file
C22_Witness ==
  /\ file.fd >= 0
  /\ file.mode = FILE_MODE_WRITING
  /\ file.moved = << 49 >>
  /\ disp.evt = UDS_EVT_TransferData
  /\ disp.args.data = << 49 >>
  /\ os.fs[file.current_path].data = << 49, 49 >>

\* C23: on a RequestTransferExit in Writing mode that supplies at least 4 bytes
\* whose big-endian value differs from the running CRC, the server closes the
\* file, unlinks the path of the session and answers
\* GeneralProgrammingFailure (0x72)
CrcMismatchExit(d) ==
  /\ d.evt = UDS_EVT_RequestTransferExit
  /\ d.pre.file.fd >= 0
  /\ d.pre.file.mode = FILE_MODE_WRITING
  /\ Len(d.args.data) >= 4
  /\ SubSeq(d.args.data, 1, 4) # U32Bytes(d.pre.file.current_crc)

C23_CrcMismatchUnlinks ==
  (HasDispatch /\ FileMounted(Lists) /\ CrcMismatchExit(disp)) =>
    /\ disp.ret = UDS_NRC_GeneralProgrammingFailure
    /\ ~os.fds[disp.pre.file.fd].open
    /\ file.fd = -1
    /\ ~os.fs[disp.pre.os.fds[disp.pre.file.fd].path].exists
    /\ ~os.fs[disp.pre.file.current_path].exists

\* the upload had put bytes into the file that the exit removed
C23_Witness ==
  /\ HasDispatch
  /\ FileMounted(Lists)
  /\ CrcMismatchExit(disp)
  /\ disp.pre.os.fs[disp.pre.file.current_path].exists
  /\ Len(disp.pre.os.fs[disp.pre.file.current_path].data) = 2
  /\ disp.ret = UDS_NRC_GeneralProgrammingFailure

\* C25: a ResponseReceived event sets heartbeat_fail_count to 0: the count is
\* the number of failures counted since the last ResponseReceived, the failures
\* counted before it never add to those counted after it
C25_ResponseResetsCount == cli.g_heartbeat_fail_count = cli.since_resp

\* two failures were counted, a response was received, one failure was counted
C25_Witness ==
  /\ cli.resp_cleared = 2
  /\ cli.since_resp = 1
  /\ cli.cb_calls = 0

C27_DisconnectEndsLoop ==
  /\ []((cli.cb_calls > 0 /\ cli.pc # "exit") => cli.g_shell_force_exit # 0)
  /\ []((cli.cb_calls > 0 /\ cli.pc = "exit") => cli.exit_code = SHELL_EXIT_TIMEOUT)
  /\ [][(cli.pc = "top" /\ cli.g_shell_force_exit # 0) =>
          (cli'.pc = "exit" /\ cli'.exit_code = SHELL_EXIT_TIMEOUT)]_vars

\* the callback has fired and the loop has returned
C27_Witness ==
  /\ cli.pc = "exit"
  /\ cli.cb_calls > 0
  /\ cli.exit_code = SHELL_EXIT_TIMEOUT

\* C28: a RequestSeed for the level of a mounted instance that is still locked is
\* answered positively with a seed of 4 bytes that is not zero, and that value
\* is the instance's current_seed afterwards
LockedSeedRequestFor(d) ==
  { s \in SecInsts :
      /\ d.evt = UDS_EVT_SecAccessRequestSeed
      /\ SecMounted(Lists, s)
      /\ d.args.level = d.pre.sec[s].supported_level
      /\ d.pre.securityLevel # d.args.level }

C28_LockedSeedNotZero ==
  HasDispatch =>
    \A s \in LockedSeedRequestFor(disp) :
      /\ disp.ret = UDS_PositiveResponse
      /\ Len(disp.post.resp) = 4
      /\ disp.post.resp # << 0, 0, 0, 0 >>
      /\ sec[s].current_seed = U32FromBytes(disp.post.resp)

\* the two shapes of the response to a seed request for an unlocked level
AlreadyUnlockedResponse(recv, level) ==
  \/ recv = << SID_SECURITY_ACCESS_RESPONSE, level >>
  \/ recv = << SID_SECURITY_ACCESS_RESPONSE, level >> \o U32Bytes(U32Zero)

\* C29: an `auth L` for a level that was unlocked, answered with the two bytes
\* (SID, level) or with the six bytes carrying an all-zero seed, returns 0 and
\* has sent no key
C29_UnlockedAuthSendsNoKey ==
  (/\ cli.auth.returned
   /\ cli.auth.unlocked_before
   /\ Len(cli.auth.recv) >= 2
   /\ AlreadyUnlockedResponse(cli.auth.recv, cli.auth.level))
    => (cli.auth.ret = 0 /\ ~cli.auth.key_sent)

\* C24: after an upload of the bytes B that returned 0, a download of the same
\* path that returned 0 has left a local file equal to B, and the CRC of the
\* upload and the CRC of the download are both the CRC-32 of B
RoundTripDone(x) ==
  /\ x.cmd = "download"
  /\ x.returned
  /\ x.ret = 0
  /\ x.uploaded[x.path].ok

C24_UploadDownloadRoundTrip ==
  RoundTripDone(cli.xfer) =>
    LET x == cli.xfer
        up == x.uploaded[x.path]
    IN  /\ x.local[x.path] = [exists |-> TRUE, data |-> up.B]
        /\ x.crc = Crc32Of(up.B)

\* C30: a download that created the local file and then returned -1 because the
\* initial request failed or the server answered a block with an error has
\* removed the local file, and so has a download whose local file did not take
\* the data
C30_AbortRemovesPartialFile ==
  LET x == cli.xfer
  IN  /\ (x.cmd = "download" /\ x.returned /\ x.ret = -1
            /\ x.cause \in { "request", "block" })
           => ~x.local[x.path].exists
      /\ (x.cmd = "download" /\ x.write_failed)
           => (x.returned /\ x.ret = -1 /\ ~x.local[x.path].exists)

\* the dispatch d is an IO-control request for the node n with an action of acts
\* that was answered positively
IoHandled(d, n, acts) ==
  /\ d.evt = UDS_EVT_IOControl
  /\ d.ret = UDS_PositiveResponse
  /\ d.args.dataId = IoDid(n)
  /\ d.args.ioCtrlParam \in acts

IoSetActions == { UDS_IO_ACT_SHORT_TERM_ADJ, UDS_IO_ACT_FREEZE_CURRENT }
IoClearActions == { UDS_IO_ACT_RETURN_CONTROL, UDS_IO_ACT_RESET_TO_DEFAULT }

IoRegisteredNow(n) == rt_list_isempty(Lists, n) /\ ~rt_list_isempty(Lists', n)

C35_FdOpenIffActive ==
  (file.fd >= 0) <=> (file.mode \in { FILE_MODE_WRITING, FILE_MODE_READING })

\* C36: a TransferData block whose wait ended by its per-block time limit aborts
\* the transfer: the command is over (the shell is back at its poll with no
\* command), so the block is not counted and no further block is sent.
C36_BlockTimeoutAborts ==
  (cli.txn.kind = "block" /\ cli.txn.timed_out) =>
    (cli.pc = "poll" /\ cli.cmd = "none")

(***************************************************************************)
(* The mount specification: the application thread mounts and unmounts the *)
(* file service and registers and unregisters its own nodes, in any order, *)
(* a mount of the mounted service included.  A call whose loop over a      *)
(* chain never comes back to the head does not return: the thread makes no *)
(* further call.                                                           *)
(***************************************************************************)
\* rt_list_for_each over the chain of head comes back to the head; a walk that
\* has not ended after as many steps as there are cells is in a cycle
RECURSIVE WalkEnds(_, _, _, _)
WalkEnds(L, head, pos, fuel) ==
  IF pos = head THEN TRUE
  ELSE IF fuel = 0 THEN FALSE
  ELSE WalkEnds(L, head, L.next[pos], fuel - 1)

ChainEnds(L, head) == WalkEnds(L, head, L.next[head], Cardinality(Cells))

\* the search loop of rtt_uds_service_register for node n ends: at the head or
\* at a node of larger priority number
RECURSIVE RegisterSearchEnds(_, _, _, _, _)
RegisterSearchEnds(L, head, curr, n, fuel) ==
  IF curr = head THEN TRUE
  ELSE IF L.node[n].priority < L.node[curr].priority THEN TRUE
  ELSE IF fuel = 0 THEN FALSE
  ELSE RegisterSearchEnds(L, head, L.next[curr], n, fuel - 1)

\* the application thread is not inside a call that never returns
AppRuns == \A e \in Events : ChainEnds(Lists, e)

\* rtt_uds_file_service_mount, whatever the state of the service: when the search
\* loop of the first registration does not end, the call stays in it with the
\* four nodes initialised and none registered
FileMountCall ==
  /\ AppRuns
  /\ LET L4 == FileNodesInit(Lists, FileService)
         head == L4.node[FileReqNode].event
     IN  IF RegisterSearchEnds(L4, head, L4.next[head], FileReqNode, Cardinality(Cells))
           THEN ApplyLists(rtt_uds_file_service_mount(Lists, FileService).L)
           ELSE ApplyLists(L4)
  /\ reg_order' = reg_order
  /\ disp' = NoDispatch
  /\ UNCHANGED << svcVars, cliVars, thrVars >>

FileUnmountCall ==
  /\ AppRuns
  /\ ApplyLists(rtt_uds_file_service_unmount(Lists, FileService))
  /\ reg_order' = reg_order
  /\ disp' = NoDispatch
  /\ UNCHANGED << svcVars, cliVars, thrVars >>

NextMount ==
  \/ FileMountCall
  \/ FileUnmountCall
  \/ \E n \in UserNodes : AppRuns /\ Register(n)
  \/ \E n \in UserNodes : AppRuns /\ Unregister(n)
  \/ AppRuns /\ UnregisterAll
  \/ AppRuns /\ LogTimeoutRegister

SpecMount == InitServer /\ [][NextMount]_vars

NoDuplicates(s) == \A i, j \in 1..Len(s) : s[i] = s[j] => i = j

\* C39: after any sequence of mount, unmount, register and unregister calls, a
\* second mount of the mounted service included, every event chain is a finite
\* list that comes back to its head, each service node occurs at most once in
\* it, and no node is in two chains.
C39_ChainsWellFormed ==
  /\ \A e \in Events : ChainEnds(Lists, e)
  /\ (\A e \in Events : ChainEnds(Lists, e)) =>
       /\ \A e \in Events : NoDuplicates(ChainOf(Lists, e))
       /\ \A e1, e2 \in Events :
            e1 # e2 => \A i \in 1..Len(ChainOf(Lists, e1)) :
                         ~InSeq(ChainOf(Lists, e2), ChainOf(Lists, e1)[i])

(***************************************************************************)
(* The wait specification: uds_wait_transaction_result with its clock.     *)
(* A command sends a request and calls the wait with some timeout_ms; each *)
(* turn of its loop polls the client core, reads the clock and sleeps 1 ms.*)
(***************************************************************************)
\* the largest timeout_ms a command passes, and the most that the clock advances
\* between two readings
MaxTimeout == 3
MaxDt == 2
TimeoutValues == 0..MaxTimeout

\* the reading of the clock is kept up to MaxTimeout + 1: beyond it no comparison
\* with a timeout_ms changes any more
ClockAfter(elapsed, dt) == Min(elapsed + dt, MaxTimeout + 1)

\* if (timeout_ms > 0 && (sys_tick_get_ms() - start_time > timeout_ms))
wait_timed_out(timeout_ms, elapsed) == timeout_ms > 0 /\ elapsed > timeout_ms

WaitReturn(c, timed_out, send_err) ==
  [c EXCEPT !.wait.pc = "returned",
            !.wait.ret = uds_wait_transaction_result(send_err, timed_out, c.g_last_nrc)]

\* uds_prepare_request(), the send call and the entry of the wait function: the
\* check of send_err and the first test of while (!g_response_received)
WaitCall(tp_ok, timeout_ms) ==
  /\ cli.wait.pc # "loop"
  /\ LET s == UDSClientSend(uds_prepare_request(cli), FALSE, tp_ok)
         c == [s.c EXCEPT !.wait = [NoWait EXCEPT !.timeout_ms = timeout_ms]]
     IN  CliStep(IF s.err # UDS_OK THEN WaitReturn(c, FALSE, s.err)
                 ELSE [c EXCEPT !.wait.pc = "loop"])

\* one turn of the loop: uds_poll(), the timeout check, sys_delay_ms(1) and the
\* test of while (!g_response_received); dt is the time since the last reading
WaitTurn(step, dt) ==
  /\ cli.wait.pc = "loop"
  /\ cli.wait.delayed => dt >= 1
  /\ LET c1 == uds_poll(cli, FALSE, step)
         c2 == [c1 EXCEPT !.wait.elapsed = ClockAfter(@, dt), !.wait.delayed = TRUE]
     IN  CliStep(IF wait_timed_out(c2.wait.timeout_ms, c2.wait.elapsed)
                   THEN WaitReturn(c2, TRUE, UDS_OK)
                 ELSE IF c2.g_response_received
                   THEN WaitReturn([c2 EXCEPT !.wait.elapsed_loops = (@ + 1) % SPINNER_LOOPS],
                                   FALSE, UDS_OK)
                 ELSE [c2 EXCEPT !.wait.elapsed_loops = (@ + 1) % SPINNER_LOOPS])

WaitLoop == \E step \in CoreSteps(cli, FALSE), dt \in 0..MaxDt : WaitTurn(step, dt)

\* between two commands the shell loop polls the client core
WaitIdlePoll(step) ==
  /\ cli.wait.pc # "loop"
  /\ cli.state # STATE_IDLE
  /\ CliStep(uds_poll(cli, FALSE, step))

NextWait ==
  \/ \E tp_ok \in BOOLEAN, timeout_ms \in TimeoutValues : WaitCall(tp_ok, timeout_ms)
  \/ WaitLoop
  \/ \E step \in CoreSteps(cli, FALSE) : WaitIdlePoll(step)

SpecWait == InitServer /\ [][NextWait]_vars

\* the thread that called the wait function keeps running: a turn of the loop
\* that can be taken is taken.  Nothing makes the client core deliver an event.
SpecWaitFair == SpecWait /\ WF_vars(WaitLoop)

\* C40: every call of uds_wait_transaction_result returns, for every value of
\* timeout_ms, 0 included: a call that is in its loop leaves it.
C40_WaitTerminates == (cli.wait.pc = "loop") ~> (cli.wait.pc = "returned")

(***************************************************************************)
(* Claims about the command dispatch of the client shell                   *)
(***************************************************************************)
\* C34: when the handler of a command rejects its arguments (`cc 04` without a
\* node id, `auth` with an even level), nothing is transmitted to the server as
\* a result of that command line.
C34_InvalidArgsSendNothing ==
  cli.line.kind = "local_invalid" => ~cli.line.transmitted

\* C37: a line whose first word is a registered local command is never
\* forwarded to the remote console, whatever the local handler returns.
C37_LocalCommandStaysLocal ==
  cli.line.kind \in { "local", "local_invalid" } => ~cli.line.forwarded

(***************************************************************************)
(* The session, console and capture specifications.  Session: the         *)
(* session-control node and an application node are registered and         *)
(* unregistered, sessions are asked for, the session times out.  Console:  *)
(* the console service is mounted and unmounted next to an application     *)
(* handler of RoutineControl, routines are started in every session and    *)
(* security state; the build's options (UDS_CONSOLE_REQ_EXT_SESSION,       *)
(* UDS_CONSOLE_REQ_SECURITY) are chosen at the start.  Capture: commands   *)
(* are run whose output fills the capture buffer.                          *)
(***************************************************************************)
\* number of writes msh_exec makes for a command
MaxWrites == 3

\* an application handler of RoutineControl and one of DiagnosticSessionControl
RoutineUserNode == UserNodePool[1]
SessionUserNode == UserNodePool[2]

ConsoleUserNodeDef(n, prio) ==
  [name |-> n,
   event |-> IF n = RoutineUserNode THEN UDS_EVT_RoutineCtrl
             ELSE IF n = SessionUserNode THEN UDS_EVT_DiagSessCtrl
             ELSE UDS_EVT_WriteDataByIdent,
   priority |-> prio, context |-> "NULL", handler |-> "user"]

InitConsole ==
  /\ InitLists
  /\ node = [n \in ServiceNodes |->
               IF n \in UserNodes THEN ConsoleUserNodeDef(n, RTT_UDS_PRIO_NORMAL)
                                   ELSE FixedNodeDef(n)]
  /\ sec = InitSrvState.sec
  /\ securityLevel = InitSrvState.securityLevel
  /\ sessionType = InitSrvState.sessionType
  /\ \E e, s \in BOOLEAN : console = ConsoleConfig(e, s)
  /\ is_overridden = InitSrvState.is_overridden
  /\ file = InitSrvState.file
  /\ os = InitSrvState.os
  /\ reg_order = << >>
  /\ disp = NoDispatch
  /\ cli = InitClient
  /\ thr = InitThread

ConsoleMount ==
  LET r == rtt_uds_console_service_mount(Lists, console, ConsoleService)
  IN  /\ ApplyLists(r.L)
      /\ console' = r.con
      /\ reg_order' = reg_order
      /\ disp' = NoDispatch
      /\ UNCHANGED << sec, securityLevel, sessionType, is_overridden, file, os,
                      cliVars, thrVars >>

ConsoleUnmount ==
  /\ console.dev_registered
  /\ LET r == rtt_uds_console_service_unmount(Lists, console, ConsoleService)
     IN  /\ ApplyLists(r.L)
         /\ console' = r.con
  /\ reg_order' = reg_order
  /\ disp' = NoDispatch
  /\ UNCHANGED << sec, securityLevel, sessionType, is_overridden, file, os,
                  cliVars, thrVars >>

\* the session types a client asks for: the three the handler knows, 0x04
\* (safety system) and 0x40 (the first one left to the vehicle manufacturer)
SessionTypes == { UDS_LEV_DS_DS, UDS_LEV_DS_PRGS, UDS_LEV_DS_EXTDS, 4, 64 }

\* 0x10; on a positive response the core library enters the session
DiagSessCtrl(type, u) ==
  /\ ~HasDispatch
  /\ LET args == [NoArgs EXCEPT !.type = type]
         d == server_event_dispatcher(Lists, UDS_EVT_DiagSessCtrl, args,
                                      [NoOracle EXCEPT !.user = u], SrvState)
     IN  /\ disp' = DispatchRecord(UDS_EVT_DiagSessCtrl, args, d)
         /\ ApplySrvState(d.st)
         /\ sessionType' = IF d.ret = UDS_PositiveResponse THEN type ELSE sessionType
         /\ UNCHANGED << tableVars, securityLevel, cliVars, thrVars >>

\* what msh_exec writes at a time: a character, two characters, more than the
\* buffer holds
WriteStrings ==
  { << "a" >>, << "b", "b" >>, [i \in 1..UDS_CONSOLE_BUF_SIZE |-> "x"] }

WriteSeqs == UNION { [1..k -> WriteStrings] : k \in 0..MaxWrites }

\* the requests a client makes: commands of one and two characters for the
\* console, and requests with one thing wrong (the sub-function, the routine
\* id, the length)
\* with the sub-functions startRoutine and stopRoutine (0x02), for the console's
\* routine id and for one that is not the console's (0x0203)
SubFunctionRequests ==
  { [NoArgs EXCEPT !.ctrlType = ct, !.id = id, !.len = 1] :
      ct \in { UDS_LEV_RCTP_STR, 2 }, id \in { RID_REMOTE_CONSOLE, 515 } }

RoutineRequests ==
  { [NoArgs EXCEPT !.ctrlType = UDS_LEV_RCTP_STR, !.id = RID_REMOTE_CONSOLE, !.len = len] :
      len \in { 0, 1, 2, UDS_CONSOLE_CMD_BUF_SIZE } }
    \cup SubFunctionRequests

\* 0x31
RoutineCtrl(args, writes, u) ==
  /\ ~HasDispatch
  /\ LET d == server_event_dispatcher(Lists, UDS_EVT_RoutineCtrl, args,
                                      [NoOracle EXCEPT !.user = u, !.writes = writes],
                                      SrvState)
     IN  /\ disp' = DispatchRecord(UDS_EVT_RoutineCtrl, args, d)
         /\ ApplySrvState(d.st)
         /\ UNCHANGED << tableVars, securityLevel, sessionType, cliVars, thrVars >>

\* what the application's handlers answer
UserOracles(evt) == [HandlersOf(Lists, evt) \cap UserNodes -> UserResults]

NextSession ==
  \/ \E n \in { SessionControlNode, SessionUserNode } : Register(n)
  \/ \E n \in { SessionControlNode, SessionUserNode } : Unregister(n)
  \/ \E type \in SessionTypes, u \in UserOracles(UDS_EVT_DiagSessCtrl) :
       DiagSessCtrl(type, u)
  \/ SessionTimeout(NoOracle)
  \/ CoreResponds

SpecSession == InitConsole /\ [][NextSession]_vars

\* the level the console asks for is unlocked with the right key
ConsoleKeys ==
  { U32Bytes(calculate_key(sec[s].current_seed, sec[s].secret_key)) : s \in SecInsts }

\* what the application's handler of RoutineControl answers: it passes the
\* request on, serves it, or does not know the routine
RoutineOracles ==
  [HandlersOf(Lists, UDS_EVT_RoutineCtrl) \cap UserNodes ->
     { RTT_UDS_CONTINUE, UDS_PositiveResponse, UDS_NRC_RequestOutOfRange }]

NextConsole ==
  \/ ConsoleMount
  \/ Register(RoutineUserNode)
  \/ Register(SessionControlNode)
  \/ \E type \in SessionTypes : DiagSessCtrl(type, << >>)
  \/ \E args \in SubFunctionRequests, u \in RoutineOracles :
       RoutineCtrl(args, << >>, u)
  \/ SecMount("security_service")
  \/ RequestSeed(REQUIRED_SEC_LEVEL, TickPool[1])
  \/ \E key \in ConsoleKeys : ValidateKey(REQUIRED_SEC_LEVEL, key)
  \/ CoreResponds

SpecConsole == InitConsole /\ [][NextConsole]_vars

NextCapture ==
  \/ ConsoleMount
  \/ ConsoleUnmount
  \/ \E args \in RoutineRequests, writes \in WriteSeqs : RoutineCtrl(args, writes, << >>)
  \/ CoreResponds

SpecCapture == InitServer /\ [][NextCapture]_vars

\* C33: a DiagnosticSessionControl request that reaches handle_session_control
\* with a session type other than Default, Programming and Extended is answered
\* with NRC 0x7E (SubFunctionNotSupportedInActiveSession).
C33_ReservedSessionRejected ==
  ( /\ disp.evt = UDS_EVT_DiagSessCtrl
    /\ disp.args.type \notin { UDS_LEV_DS_DS, UDS_LEV_DS_PRGS, UDS_LEV_DS_EXTDS }
    /\ \E i \in 1..Len(disp.invoked) : disp.invoked[i] = SessionControlNode )
    => disp.ret = UDS_NRC_SubFunctionNotSupportedInActiveSession

\* C38: for a RoutineControl request whose routine id is not the remote-console
\* id, the console handler answers "not mine" in every session and security
\* state, and the handlers after it in the chain are invoked.
C38_ForeignRoutinePassedOn ==
  (disp.evt = UDS_EVT_RoutineCtrl /\ disp.args.id # RID_REMOTE_CONSOLE) =>
    \A i \in 1..Len(disp.invoked) :
      disp.invoked[i] = ConsoleNode =>
        /\ disp.results[i] \in NotMine
        /\ \A j \in 1..Len(disp.chain) :
             disp.chain[j] = ConsoleNode /\ j < Len(disp.chain) =>
               i < Len(disp.invoked) /\ disp.invoked[i + 1] = disp.chain[j + 1]

\* the state a write of the capture has found: what the write before it has
\* left, or what capture_start has set up
CaptureBefore(log, i) ==
  IF i = 1 THEN [buffer |-> << >>, pos |-> 0, overflow |-> FALSE]
           ELSE [buffer |-> log[i - 1].buffer, pos |-> log[i - 1].pos,
                 overflow |-> log[i - 1].overflow]

EndsWith(s, t) == Len(s) >= Len(t) /\ SubSeq(s, Len(s) - Len(t) + 1, Len(s)) = t

\* C32: a write that does not fit into the capture buffer leaves the buffer
\* ending with the "[TRUNCATED]" marker and the overflow flag set, and every later
\* write of that capture leaves the buffer content, pos and the flag unchanged.
C32_OverflowTruncatesOnce ==
  LET log == console.cap.log
  IN  \A i \in 1..Len(log) :
        LET before == CaptureBefore(log, i)
        IN  /\ (~before.overflow /\ log[i].size > UDS_CONSOLE_BUF_SIZE - before.pos - 1) =>
                 /\ log[i].overflow
                 /\ EndsWith(log[i].buffer, ovf_msg)
                 /\ log[i].pos = Len(log[i].buffer)
                 /\ log[i].pos < UDS_CONSOLE_BUF_SIZE
            /\ before.overflow =>
                 /\ log[i].overflow
                 /\ log[i].buffer = before.buffer
                 /\ log[i].pos = before.pos

\* a capture has overflowed with less room left than the marker needs, and a
\* write has come after that
C32_Witness ==
  LET log == console.cap.log
  IN  \E i \in 1..Len(log) :
        /\ ~CaptureBefore(log, i).overflow
        /\ log[i].overflow
        /\ UDS_CONSOLE_BUF_SIZE - CaptureBefore(log, i).pos - 1 < Len(ovf_msg)
        /\ i < Len(log)
        /\ log[i + 1].size > 0

====
